---- MODULE Spec2Model ----
(***************************************************************************)
(* URL shortener: the storage backends (memory, file, relational), the     *)
(* create orchestrator (getOrCreateShortURL) and the delete path (queue    *)
(* and worker).  Each action is one critical section of the Go code: the   *)
(* memory store holds its mutex for a whole method, the relational store   *)
(* runs one SQL statement or one transaction per method.                   *)
(***************************************************************************)
EXTENDS Naturals, Integers, Sequences, FiniteSets, TLC

\* Short identifiers the generator can produce, original URLs, owners and
\* request-handling goroutines.
IDs == {"a", "b"}

URLSet == {"u1", "u2"}

Users == {"A", "B"}

Procs == {"p1", "p2"}

Backends == {"memory", "file", "postgres"}

\* const maxRetries = 10 in getOrCreateShortURL.
maxRetries == 10

\* Capacity of the delete channel.
QueueCap == 1

\* HTTP status codes written by the handlers.
StatusCreated == 201

StatusConflict == 409

StatusBadRequest == 400

StatusAccepted == 202

StatusServiceUnavailable == 503
StatusUnauthorized == 401
StatusNoContent == 204
StatusInternalServerError == 500
StatusOK == 200

\* Go's zero value of string, returned by the lookups on a miss.
NoStr == ""

VARIABLES
  backend,      \* which Storage implementation NewStorage selected
  memoryStore,  \* MemoryStore{URLs, reverseURLs, userURLs} (memory and file backends)
  urls,         \* rows of the relational table urls
  fileLog,      \* records of the file backend's append-only file
  pending,      \* FileStore calls that have written memory and not yet returned
  req,          \* per goroutine: where it is inside getOrCreateShortURL
  deleteChan,   \* buffered channel of DeleteRequest
  worker,       \* the delete worker: waiting in select, holding a request, or stopped
  ctx,          \* the worker's context: "active" until it is cancelled, then "done"
  last          \* the storage call or handler response made by the latest step

vars == <<backend, memoryStore, urls, fileLog, pending, req, deleteChan, worker, ctx, last>>

\* What the backends hold: the maps, the table and the file.
store == <<memoryStore, urls, fileLog>>

-----------------------------------------------------------------------------
\* Go maps as functions with a finite domain.

EmptyMap == [k \in {} |-> NoStr]

Put(m, k, v) == [x \in (DOMAIN m) \cup {k} |-> IF x = k THEN v ELSE m[x]]

Lookup(m, k) == IF k \in DOMAIN m THEN m[k] ELSE NoStr

\* The elements of a slice.
Range(q) == {q[i] : i \in 1..Len(q)}

-----------------------------------------------------------------------------
\* MemoryStore

NewMemoryStore == [URLs |-> EmptyMap, reverseURLs |-> EmptyMap, userURLs |-> EmptyMap]

\* Variants of SaveID that the properties below must tell from the real one:
\* one that writes without looking whether the id is taken, one that forgets
\* the reverse map, one that accepts a stored pair and writes it again.
MemoryStore_SaveID_NoCheck(s, userID, id, originalURL) ==
  [err |-> "nil",
   store |-> [URLs |-> Put(s.URLs, id, originalURL),
              reverseURLs |-> Put(s.reverseURLs, originalURL, id),
              userURLs |-> Put(s.userURLs, userID,
                               Put(IF userID \in DOMAIN s.userURLs
                                   THEN s.userURLs[userID] ELSE EmptyMap,
                                   id, originalURL))]]

MemoryStore_SaveID_ForwardOnly(s, userID, id, originalURL) ==
  IF id \in DOMAIN s.URLs
  THEN [err |-> "AlreadyExists", store |-> s]
  ELSE [err |-> "nil",
        store |-> [URLs |-> Put(s.URLs, id, originalURL),
                   reverseURLs |-> s.reverseURLs,
                   userURLs |-> Put(s.userURLs, userID,
                                    Put(IF userID \in DOMAIN s.userURLs
                                        THEN s.userURLs[userID] ELSE EmptyMap,
                                        id, originalURL))]]

MemoryStore_SaveID_Rewrite(s, userID, id, originalURL) ==
  IF id \in DOMAIN s.URLs /\ s.URLs[id] # originalURL
  THEN [err |-> "AlreadyExists", store |-> s]
  ELSE [err |-> "nil",
        store |-> [URLs |-> Put(s.URLs, id, originalURL),
                   reverseURLs |-> Put(s.reverseURLs, originalURL, id),
                   userURLs |-> Put(s.userURLs, userID,
                                    Put(IF userID \in DOMAIN s.userURLs
                                        THEN s.userURLs[userID] ELSE EmptyMap,
                                        id, originalURL))]]

\* A variant that leaves the owner index alone.
MemoryStore_SaveID_NoOwnerIndex(s, userID, id, originalURL) ==
  IF id \in DOMAIN s.URLs
  THEN [err |-> "AlreadyExists", store |-> s]
  ELSE [err |-> "nil",
        store |-> [URLs |-> Put(s.URLs, id, originalURL),
                   reverseURLs |-> Put(s.reverseURLs, originalURL, id),
                   userURLs |-> s.userURLs]]

\* SaveID under s.mu: refuse an id that is already a key of URLs, else write
\* the three maps.  Result: the error and the store afterwards.
MemoryStore_SaveID(s, userID, id, originalURL) ==
  IF id \in DOMAIN s.URLs
  THEN [err |-> "AlreadyExists", store |-> s]
  ELSE [err |-> "nil",
        store |-> [URLs |-> Put(s.URLs, id, originalURL),
                   reverseURLs |-> Put(s.reverseURLs, originalURL, id),
                   userURLs |-> Put(s.userURLs, userID,
                                    Put(IF userID \in DOMAIN s.userURLs
                                        THEN s.userURLs[userID] ELSE EmptyMap,
                                        id, originalURL))]]

MemoryStore_Get(s, id) == [url |-> Lookup(s.URLs, id), ok |-> id \in DOMAIN s.URLs]

MemoryStore_GetIDByURL(s, originalURL) ==
  [id |-> Lookup(s.reverseURLs, originalURL), ok |-> originalURL \in DOMAIN s.reverseURLs]

\* GetUserURLs: the owner's map of userURLs, or (nil, false) when the owner
\* has none.
MemoryStore_GetUserURLs(s, userID) ==
  IF userID \in DOMAIN s.userURLs
  THEN [urls |-> s.userURLs[userID], ok |-> TRUE]
  ELSE [urls |-> EmptyMap, ok |-> FALSE]

\* A variant of BatchDelete that erases the listed ids of the owner from the
\* three maps.
MemoryStore_BatchDelete_Erase(s, userID, urlIDs) ==
  LET Gone == {i \in Range(urlIDs) :
                 userID \in DOMAIN s.userURLs /\ i \in DOMAIN s.userURLs[userID]}
  IN [err |-> "nil",
      store |-> [URLs |-> [i \in DOMAIN s.URLs \ Gone |-> s.URLs[i]],
                 reverseURLs |-> [u \in {x \in DOMAIN s.reverseURLs :
                                           s.reverseURLs[x] \notin Gone} |-> s.reverseURLs[u]],
                 userURLs |-> [o \in DOMAIN s.userURLs |->
                                 IF o = userID
                                 THEN [i \in DOMAIN s.userURLs[o] \ Gone |-> s.userURLs[o][i]]
                                 ELSE s.userURLs[o]]]]

\* BatchDelete returns nil and touches nothing.
MemoryStore_BatchDelete(s, userID, urlIDs) == [err |-> "nil", store |-> s]

\* A variant of the loop that writes every pair, whether or not its id is
\* already stored.
RECURSIVE MemoryStore_SaveBatchLoop_NoCheck(_, _, _, _)
MemoryStore_SaveBatchLoop_NoCheck(s, userID, order, pairs) ==
  IF order = <<>> THEN [err |-> "nil", store |-> s]
  ELSE LET id == Head(order)
           originalURL == pairs[Head(order)]
       IN MemoryStore_SaveBatchLoop_NoCheck(
            [URLs |-> Put(s.URLs, id, originalURL),
             reverseURLs |-> Put(s.reverseURLs, originalURL, id),
             userURLs |-> Put(s.userURLs, userID, Put(s.userURLs[userID], id, originalURL))],
            userID, Tail(order), pairs)

\* A variant of the loop that passes over a pair whose id is already stored
\* and goes on with the pairs after it.
RECURSIVE MemoryStore_SaveBatchLoop_SkipExisting(_, _, _, _)
MemoryStore_SaveBatchLoop_SkipExisting(s, userID, order, pairs) ==
  IF order = <<>> THEN [err |-> "nil", store |-> s]
  ELSE LET id == Head(order)
           originalURL == pairs[Head(order)]
       IN IF id \in DOMAIN s.URLs \/ id \in DOMAIN s.userURLs[userID]
          THEN [err |-> "AlreadyExists",
                store |-> MemoryStore_SaveBatchLoop_SkipExisting(s, userID, Tail(order),
                                                                 pairs).store]
          ELSE MemoryStore_SaveBatchLoop_SkipExisting(
                 [URLs |-> Put(s.URLs, id, originalURL),
                  reverseURLs |-> Put(s.reverseURLs, originalURL, id),
                  userURLs |-> Put(s.userURLs, userID, Put(s.userURLs[userID], id, originalURL))],
                 userID, Tail(order), pairs)

\* The loop of SaveBatch over the pairs, in the order the map iteration yields
\* them: the first id that is already a key of URLs (or of the owner's map)
\* ends the loop with an error, the pairs written before it stay written.
RECURSIVE MemoryStore_SaveBatchLoop(_, _, _, _)
MemoryStore_SaveBatchLoop(s, userID, order, pairs) ==
  IF order = <<>> THEN [err |-> "nil", store |-> s]
  ELSE LET id == Head(order)
           originalURL == pairs[Head(order)]
       IN IF id \in DOMAIN s.URLs \/ id \in DOMAIN s.userURLs[userID]
          THEN [err |-> "AlreadyExists", store |-> s]
          ELSE MemoryStore_SaveBatchLoop(
                 [URLs |-> Put(s.URLs, id, originalURL),
                  reverseURLs |-> Put(s.reverseURLs, originalURL, id),
                  userURLs |-> Put(s.userURLs, userID, Put(s.userURLs[userID], id, originalURL))],
                 userID, Tail(order), pairs)

\* SaveBatch under s.mu: create the owner's map if it is missing, then the loop.
MemoryStore_SaveBatch(s, userID, order, pairs) ==
  MemoryStore_SaveBatchLoop(
    [s EXCEPT !.userURLs = IF userID \in DOMAIN @ THEN @ ELSE Put(@, userID, EmptyMap)],
    userID, order, pairs)

-----------------------------------------------------------------------------
\* PostgresStore: table urls(short_id UNIQUE, original_url UNIQUE, user_id, is_deleted)

Row(userID, id, originalURL) ==
  [short_id |-> id, original_url |-> originalURL, user_id |-> userID, is_deleted |-> FALSE]

\* A variant that replaces the row holding the short_id instead of dropping
\* the new one.
InsertOrReplace(t, row) == {r \in t : r.short_id # row.short_id} \cup {row}

\* INSERT ... ON CONFLICT DO NOTHING: a row that conflicts on short_id or on
\* original_url is dropped without an error.
InsertOnConflictDoNothing(t, row) ==
  IF \E r \in t : r.short_id = row.short_id \/ r.original_url = row.original_url
  THEN t
  ELSE t \cup {row}

\* SaveID: err is nil unless Exec fails (dbOK = FALSE).
PostgresStore_SaveID(t, userID, id, originalURL, dbOK) ==
  IF dbOK
  THEN [err |-> "nil", table |-> InsertOnConflictDoNothing(t, Row(userID, id, originalURL))]
  ELSE [err |-> "dbError", table |-> t]

PostgresStore_Get(t, id) ==
  IF \E r \in t : r.short_id = id
  THEN [url |-> (CHOOSE r \in t : r.short_id = id).original_url, ok |-> TRUE]
  ELSE [url |-> NoStr, ok |-> FALSE]

PostgresStore_GetIDByURL(t, originalURL) ==
  IF \E r \in t : r.original_url = originalURL
  THEN [id |-> (CHOOSE r \in t : r.original_url = originalURL).short_id, ok |-> TRUE]
  ELSE [id |-> NoStr, ok |-> FALSE]

\* SELECT short_id, original_url FROM urls WHERE user_id = $1; a failed query
\* gives (nil, false).
PostgresStore_GetUserURLs(t, userID, dbOK) ==
  IF dbOK
  THEN [urls |-> [i \in {r.short_id : r \in {x \in t : x.user_id = userID}} |->
                   (CHOOSE r \in t : r.short_id = i).original_url],
        ok |-> TRUE]
  ELSE [urls |-> EmptyMap, ok |-> FALSE]

\* A variant of BatchDelete whose UPDATE has no user_id condition.
PostgresStore_BatchDelete_AnyOwner(t, userID, urlIDs, dbOK) ==
  IF Len(urlIDs) = 0 THEN [err |-> "nil", table |-> t]
  ELSE IF ~dbOK THEN [err |-> "dbError", table |-> t]
  ELSE [err |-> "nil",
        table |-> {IF r.short_id \in Range(urlIDs)
                   THEN [r EXCEPT !.is_deleted = TRUE] ELSE r : r \in t}]

\* UPDATE urls SET is_deleted = TRUE WHERE user_id = $1 AND short_id IN (...)
PostgresStore_BatchDelete(t, userID, urlIDs, dbOK) ==
  IF Len(urlIDs) = 0 THEN [err |-> "nil", table |-> t]
  ELSE IF ~dbOK THEN [err |-> "dbError", table |-> t]
  ELSE [err |-> "nil",
        table |-> {IF r.user_id = userID /\ r.short_id \in Range(urlIDs)
                   THEN [r EXCEPT !.is_deleted = TRUE] ELSE r : r \in t}]

\* The statements of one batch, applied in the order the range over pairs
\* queued them.
RECURSIVE PostgresStore_SaveBatchLoop(_, _, _, _)
PostgresStore_SaveBatchLoop(t, userID, order, pairs) ==
  IF order = <<>> THEN t
  ELSE PostgresStore_SaveBatchLoop(
         InsertOnConflictDoNothing(t, Row(userID, Head(order), pairs[Head(order)])),
         userID, Tail(order), pairs)

\* SaveBatch: one transaction that queues an INSERT ... ON CONFLICT DO NOTHING
\* per pair.  When Begin, SendBatch or Commit fails (dbOK = FALSE) the deferred
\* Rollback leaves the table as it was; otherwise the statements apply in the
\* order they were queued and the call returns nil.
PostgresStore_SaveBatch(t, userID, order, pairs, dbOK) ==
  IF dbOK
  THEN [err |-> "nil", table |-> PostgresStore_SaveBatchLoop(t, userID, order, pairs)]
  ELSE [err |-> "dbError", table |-> t]

-----------------------------------------------------------------------------
\* The Storage interface as the handlers see it, dispatched on the backend
\* NewStorage selected.  FileStore forwards its reads to the wrapped memoryStore.

Get(id) ==
  IF backend = "postgres" THEN PostgresStore_Get(urls, id)
  ELSE MemoryStore_Get(memoryStore, id)

GetIDByURL(originalURL) ==
  IF backend = "postgres" THEN PostgresStore_GetIDByURL(urls, originalURL)
  ELSE MemoryStore_GetIDByURL(memoryStore, originalURL)

\* What a listing request gets when the query itself does not fail.
GetUserURLs(userID) ==
  IF backend = "postgres" THEN PostgresStore_GetUserURLs(urls, userID, TRUE)
  ELSE MemoryStore_GetUserURLs(memoryStore, userID)

\* The owner and the tombstone of a record.  MemoryStore keeps the owner in
\* userURLs and has no field for a tombstone; the table has both columns.
Owns(userID, id) ==
  IF backend = "postgres"
  THEN \E r \in urls : r.short_id = id /\ r.user_id = userID
  ELSE userID \in DOMAIN memoryStore.userURLs /\ id \in DOMAIN memoryStore.userURLs[userID]

IsDeleted(id) ==
  IF backend = "postgres"
  THEN \E r \in urls : r.short_id = id /\ r.is_deleted
  ELSE FALSE

\* All that the store holds about one short id.
RecordOf(id) ==
  [url |-> Get(id).url, found |-> Get(id).ok,
   owners |-> {u \in Users : Owns(u, id)}, deleted |-> IsDeleted(id)]

-----------------------------------------------------------------------------
\* The file is a sequence of JSON values.  FileRecord is an object with the
\* three keys loadFromFile reads (a key the writer left out reads as "");
\* Garbage is content the decoder cannot decode.
FileRecord(userID, id, originalURL) ==
  [user_id |-> userID, short_url |-> id, original_url |-> originalURL, valid |-> TRUE]

Garbage == [user_id |-> NoStr, short_url |-> NoStr, original_url |-> NoStr, valid |-> FALSE]

\* FileStore.appendToFile under fs.mu: one JSON line per record, or an I/O error.
FileStore_appendToFile(f, userID, id, originalURL, ioOK) ==
  IF ioOK
  THEN [err |-> "nil", file |-> Append(f, FileRecord(userID, id, originalURL))]
  ELSE [err |-> "fileError", file |-> f]

\* FileStore.appendBatchToFile, one Encode of its loop: a record with the keys
\* short_url and original_url only, or an I/O error (from OpenFile before the
\* first record, from Encode later) that ends the call.
FileStore_appendBatchToFile(f, id, originalURL, ioOK) ==
  IF ioOK
  THEN [err |-> "nil", file |-> Append(f, FileRecord(NoStr, id, originalURL))]
  ELSE [err |-> "fileError", file |-> f]

\* The loop of FileStore.SaveBatch: memoryStore.SaveID per pair, returning
\* at the first error with the pairs before it stored.
RECURSIVE FileStore_SaveBatchLoop(_, _, _, _)
FileStore_SaveBatchLoop(s, userID, order, pairs) ==
  IF order = <<>> THEN [err |-> "nil", store |-> s]
  ELSE LET r == MemoryStore_SaveID(s, userID, Head(order), pairs[Head(order)])
       IN IF r.err # "nil" THEN r
          ELSE FileStore_SaveBatchLoop(r.store, userID, Tail(order), pairs)

\* FileStore.loadFromFile: decode value after value and SaveID each into the
\* wrapped store; stop with an error at content that does not decode and at
\* a SaveID that fails, with nil at the end of the file.  A file that cannot
\* be opened (openOK = FALSE) is an error before anything is read.
RECURSIVE FileStore_loadFromFile(_, _, _)
FileStore_loadFromFile(s, f, openOK) ==
  IF ~openOK THEN [err |-> "fileError", store |-> s]
  ELSE IF f = <<>> THEN [err |-> "nil", store |-> s]
  ELSE IF ~Head(f).valid THEN [err |-> "decodeError", store |-> s]
  ELSE LET r == MemoryStore_SaveID(s, Head(f).user_id, Head(f).short_url,
                                   Head(f).original_url)
       IN IF r.err # "nil" THEN r
          ELSE FileStore_loadFromFile(r.store, Tail(f), openOK)

\* NewFileStore: an empty wrapped store, then loadFromFile, whose error is
\* dropped: the store is returned (up) whatever the replay did.  err is what
\* loadFromFile returned.
NewFileStore(f, openOK) ==
  LET r == FileStore_loadFromFile(NewMemoryStore, f, openOK) IN
  [err |-> r.err, store |-> r.store, up |-> TRUE]

-----------------------------------------------------------------------------
\* A FileStore call in progress.  A SaveID call waits for fs.mu to append its
\* record.  A SaveBatch call holds fs.mu: in its loop over memoryStore.SaveID
\* (stage "loop") batch is its pairs in the order the loop ranges over them
\* and written the number already stored; in appendBatchToFile (stage
\* "append") batch is the pairs in the order of that range and written the
\* number already encoded.
SaveIDCall(userID, id, originalURL) ==
  [userID |-> userID, id |-> id, url |-> originalURL, batch |-> <<>>, written |-> 0,
   stage |-> "append"]

SaveBatchLoopCall(userID, batch) ==
  [userID |-> userID, id |-> NoStr, url |-> NoStr, batch |-> batch, written |-> 0,
   stage |-> "loop"]

SaveBatchCall(userID, batch) ==
  [userID |-> userID, id |-> NoStr, url |-> NoStr, batch |-> batch, written |-> 0,
   stage |-> "append"]

FsMuHeld == \E c \in pending : c.batch # <<>>

-----------------------------------------------------------------------------
\* What the latest step did: the storage call (op, arguments, res), for SaveID
\* the URL the id was bound to when the call was made (prev), and the HTTP
\* status when the step also ended a handler (0 otherwise).
MkLast(op, userID, id, url, ids, prev, res, status) ==
  [op |-> op, userID |-> userID, id |-> id, url |-> url, ids |-> ids,
   prev |-> prev, res |-> res, status |-> status]

Answered(l) == l.status \in {StatusCreated, StatusConflict}

Respond(l) == last' = l

Idle == [pc |-> "idle", userID |-> NoStr, url |-> NoStr, tries |-> 0, id |-> NoStr]

WorkerSelect == [pc |-> "select", UserID |-> NoStr, URLIDs |-> <<>>]

Init ==
  /\ backend \in Backends
  /\ memoryStore = NewMemoryStore
  /\ urls = {}
  /\ fileLog = <<>>
  /\ pending = {}
  /\ req = [p \in Procs |-> Idle]
  /\ deleteChan = <<>>
  /\ worker = WorkerSelect
  /\ ctx = "active"
  /\ last = MkLast("init", NoStr, NoStr, NoStr, <<>>, NoStr, "nil", 0)

-----------------------------------------------------------------------------
\* getOrCreateShortURL, reached through PostHandler and PostJSONHandler.

\* The reverse lookup that opens getOrCreateShortURL: a hit answers 409 with
\* the existing id, a miss enters the generation loop.
PostHandler(p, userID, originalURL) ==
  /\ req[p].pc = "idle"
  /\ LET r == GetIDByURL(originalURL) IN
     IF r.ok
     THEN /\ Respond(MkLast("GetIDByURL", NoStr, r.id, originalURL, <<>>, NoStr,
                            "found", StatusConflict))
          /\ UNCHANGED req
     ELSE /\ Respond(MkLast("GetIDByURL", NoStr, NoStr, originalURL, <<>>, NoStr,
                            "notfound", 0))
          /\ req' = [req EXCEPT ![p] = [Idle EXCEPT !.pc = "loop", !.userID = userID,
                                                    !.url = originalURL]]
  /\ UNCHANGED <<backend, ctx, memoryStore, urls, fileLog, pending, deleteChan, worker>>

\* A variant of the loop bound that lets an eleventh iteration run.
Exhausted_OffByOne(p) == req[p].tries = maxRetries

\* A failed iteration of the loop: the next iteration, or after the tenth the
\* error return that the handler answers with 400.
Exhausted(p) == req[p].tries + 1 = maxRetries

AfterFailure(p) ==
  IF Exhausted(p) THEN Idle
  ELSE [req[p] EXCEPT !.pc = "loop", !.tries = @ + 1, !.id = NoStr]

FailStatus(p) == IF Exhausted(p) THEN StatusBadRequest ELSE 0

\* How an iteration that called SaveID ends: err == nil leaves the loop and the
\* handler answers 201 with the generated id; any error goes on to the next
\* iteration.
AfterSaveID(p, g, prev, err) ==
  IF err = "nil"
  THEN /\ req' = [req EXCEPT ![p] = Idle]
       /\ Respond(MkLast("SaveID", req[p].userID, g, req[p].url, <<>>, prev, "nil", StatusCreated))
  ELSE /\ req' = [req EXCEPT ![p] = AfterFailure(p)]
       /\ Respond(MkLast("SaveID", req[p].userID, g, req[p].url, <<>>, prev, err, FailStatus(p)))

\* generateID fails (rand.Read error): continue.
GenerateFails(p) ==
  /\ req[p].pc = "loop"
  /\ req' = [req EXCEPT ![p] = AfterFailure(p)]
  /\ Respond(MkLast("generateID", NoStr, NoStr, NoStr, <<>>, NoStr, "error", FailStatus(p)))
  /\ UNCHANGED <<backend, ctx, memoryStore, urls, fileLog, pending, deleteChan, worker>>

\* generateID returns g and SaveID(userID, g, url) is called on the memory store.
SaveIDMemory(p, g) ==
  /\ req[p].pc = "loop"
  /\ backend = "memory"
  /\ LET r == MemoryStore_SaveID(memoryStore, req[p].userID, g, req[p].url) IN
     /\ memoryStore' = r.store
     /\ AfterSaveID(p, g, Get(g).url, r.err)
  /\ UNCHANGED <<backend, ctx, urls, fileLog, pending, deleteChan, worker>>

\* The same call on the relational store: one INSERT statement.
SaveIDPostgres(p, g, dbOK) ==
  /\ req[p].pc = "loop"
  /\ backend = "postgres"
  /\ LET r == PostgresStore_SaveID(urls, req[p].userID, g, req[p].url, dbOK) IN
     /\ urls' = r.table
     /\ AfterSaveID(p, g, Get(g).url, r.err)
  /\ UNCHANGED <<backend, ctx, memoryStore, fileLog, pending, deleteChan, worker>>

\* FileStore.SaveID, first half: memoryStore.SaveID.  An error returns at once;
\* on success appendToFile follows as a critical section of its own.
SaveIDFileMemory(p, g) ==
  /\ req[p].pc = "loop"
  /\ backend = "file"
  /\ LET r == MemoryStore_SaveID(memoryStore, req[p].userID, g, req[p].url) IN
     /\ memoryStore' = r.store
     /\ IF r.err = "nil"
        THEN /\ req' = [req EXCEPT ![p] = [@ EXCEPT !.pc = "append", !.id = g]]
             /\ Respond(MkLast("memoryStore.SaveID", req[p].userID, g, req[p].url, <<>>,
                               Get(g).url, "nil", 0))
        ELSE AfterSaveID(p, g, Get(g).url, r.err)
  /\ UNCHANGED <<backend, ctx, urls, fileLog, pending, deleteChan, worker>>

\* FileStore.SaveID, second half: appendToFile, then SaveID returns.  The id
\* was not stored when this SaveID was called, or its first half had failed.
SaveIDFileAppend(p, ioOK) ==
  /\ req[p].pc = "append"
  /\ ~FsMuHeld
  /\ LET r == FileStore_appendToFile(fileLog, req[p].userID, req[p].id, req[p].url, ioOK) IN
     /\ fileLog' = r.file
     /\ AfterSaveID(p, req[p].id, NoStr, r.err)
  /\ UNCHANGED <<backend, ctx, memoryStore, urls, pending, deleteChan, worker>>

-----------------------------------------------------------------------------
\* The Storage interface called by the handlers' goroutines, one action per
\* call (for FileStore.SaveID one per critical section).  A call can come with
\* any owner, id and URL: concurrent requests reach every combination.

CallSaveIDMemory(userID, id, originalURL) ==
  /\ backend = "memory"
  /\ LET r == MemoryStore_SaveID(memoryStore, userID, id, originalURL) IN
     /\ memoryStore' = r.store
     /\ Respond(MkLast("SaveID", userID, id, originalURL, <<>>, Get(id).url, r.err, 0))
  /\ UNCHANGED <<backend, ctx, urls, fileLog, pending, req, deleteChan, worker>>

CallSaveIDPostgres(userID, id, originalURL, dbOK) ==
  /\ backend = "postgres"
  /\ LET r == PostgresStore_SaveID(urls, userID, id, originalURL, dbOK) IN
     /\ urls' = r.table
     /\ Respond(MkLast("SaveID", userID, id, originalURL, <<>>, Get(id).url, r.err, 0))
  /\ UNCHANGED <<backend, ctx, memoryStore, fileLog, pending, req, deleteChan, worker>>

\* FileStore.SaveID: memoryStore.SaveID, whose error returns at once ...
CallSaveIDFile(userID, id, originalURL) ==
  /\ backend = "file"
  /\ LET r == MemoryStore_SaveID(memoryStore, userID, id, originalURL) IN
     /\ memoryStore' = r.store
     /\ IF r.err = "nil"
        THEN /\ pending' = pending \cup {SaveIDCall(userID, id, originalURL)}
             /\ Respond(MkLast("memoryStore.SaveID", userID, id, originalURL, <<>>,
                               Get(id).url, "nil", 0))
        ELSE /\ UNCHANGED pending
             /\ Respond(MkLast("SaveID", userID, id, originalURL, <<>>, Get(id).url, r.err, 0))
  /\ UNCHANGED <<backend, ctx, urls, fileLog, req, deleteChan, worker>>

\* A variant of the append that does not wait for fs.mu.
CallSaveIDFileAppend_NoLock(c, ioOK) ==
  /\ c \in pending
  /\ c.batch = <<>>
  /\ LET r == FileStore_appendToFile(fileLog, c.userID, c.id, c.url, ioOK) IN
     /\ fileLog' = r.file
     /\ Respond(MkLast("SaveID", c.userID, c.id, c.url, <<>>, NoStr, r.err, 0))
  /\ pending' = pending \ {c}
  /\ UNCHANGED <<backend, ctx, memoryStore, urls, req, deleteChan, worker>>

\* A variant of the append that takes the record out of memory again when
\* the write fails.
CallSaveIDFileAppend_Rollback(c, ioOK) ==
  /\ c \in pending
  /\ c.batch = <<>>
  /\ ~FsMuHeld
  /\ LET r == FileStore_appendToFile(fileLog, c.userID, c.id, c.url, ioOK) IN
     /\ fileLog' = r.file
     /\ memoryStore' = IF r.err = "nil" THEN memoryStore
                       ELSE MemoryStore_BatchDelete_Erase(memoryStore, c.userID, <<c.id>>).store
     /\ Respond(MkLast("SaveID", c.userID, c.id, c.url, <<>>, NoStr, r.err, 0))
  /\ pending' = pending \ {c}
  /\ UNCHANGED <<backend, ctx, urls, req, deleteChan, worker>>

\* ... then appendToFile, which takes fs.mu and whose result SaveID returns.
CallSaveIDFileAppend(c, ioOK) ==
  /\ c \in pending
  /\ c.batch = <<>>
  /\ ~FsMuHeld
  /\ LET r == FileStore_appendToFile(fileLog, c.userID, c.id, c.url, ioOK) IN
     /\ fileLog' = r.file
     /\ Respond(MkLast("SaveID", c.userID, c.id, c.url, <<>>, NoStr, r.err, 0))
  /\ pending' = pending \ {c}
  /\ UNCHANGED <<backend, ctx, memoryStore, urls, req, deleteChan, worker>>

\* The maps PostBatchHandler can pass to SaveBatch, and the orders in which a
\* range over such a map can yield its keys.
BatchPairs == UNION {[D -> URLSet] : D \in (SUBSET IDs) \ {{}}}

Orders(S) == {q \in [1..Cardinality(S) -> S] : Range(q) = S}

CallSaveBatchMemory(userID, pairs, order) ==
  /\ backend = "memory"
  /\ order \in Orders(DOMAIN pairs)
  /\ LET r == MemoryStore_SaveBatch(memoryStore, userID, order, pairs) IN
     /\ memoryStore' = r.store
     /\ Respond(MkLast("SaveBatch", userID, NoStr, NoStr,
                       [k \in 1..Len(order) |-> <<order[k], pairs[order[k]]>>],
                       NoStr, r.err, 0))
  /\ UNCHANGED <<backend, ctx, urls, fileLog, pending, req, deleteChan, worker>>

\* The pairs of a batch in the order a range yielded them.
InOrder(order, pairs) == [k \in 1..Len(order) |-> <<order[k], pairs[order[k]]>>]

CallSaveBatchPostgres(userID, pairs, order, dbOK) ==
  /\ backend = "postgres"
  /\ order \in Orders(DOMAIN pairs)
  /\ LET r == PostgresStore_SaveBatch(urls, userID, order, pairs, dbOK) IN
     /\ urls' = r.table
     /\ Respond(MkLast("SaveBatch", userID, NoStr, NoStr, InOrder(order, pairs),
                       NoStr, r.err, 0))
  /\ UNCHANGED <<backend, ctx, memoryStore, fileLog, pending, req, deleteChan, worker>>

\* FileStore.SaveBatch takes fs.mu and runs its loop over memoryStore.SaveID.
\* An error of the loop returns at once; otherwise the call goes on to
\* appendBatchToFile, still holding fs.mu.
CallSaveBatchFile(userID, pairs, order, fileOrder) ==
  /\ backend = "file"
  /\ ~FsMuHeld
  /\ order \in Orders(DOMAIN pairs)
  /\ fileOrder \in Orders(DOMAIN pairs)
  /\ LET r == FileStore_SaveBatchLoop(memoryStore, userID, order, pairs) IN
     /\ memoryStore' = r.store
     /\ IF r.err = "nil"
        THEN /\ pending' = pending \cup {SaveBatchCall(userID, InOrder(fileOrder, pairs))}
             /\ Respond(MkLast("SaveBatch loop", userID, NoStr, NoStr,
                               InOrder(order, pairs), NoStr, "nil", 0))
        ELSE /\ UNCHANGED pending
             /\ Respond(MkLast("SaveBatch", userID, NoStr, NoStr, InOrder(order, pairs),
                               NoStr, r.err, 0))
  /\ UNCHANGED <<backend, ctx, urls, fileLog, req, deleteChan, worker>>

\* One Encode of appendBatchToFile.  SaveBatch returns, and gives up fs.mu,
\* after the last record or at the first error.
CallSaveBatchFileAppend(c, ioOK) ==
  /\ c \in pending
  /\ c.batch # <<>>
  /\ c.stage = "append"
  /\ LET pair == c.batch[c.written + 1]
         r == FileStore_appendBatchToFile(fileLog, pair[1], pair[2], ioOK) IN
     /\ fileLog' = r.file
     /\ IF r.err = "nil" /\ c.written + 1 < Len(c.batch)
        THEN /\ pending' = (pending \ {c}) \cup {[c EXCEPT !.written = @ + 1]}
             /\ Respond(MkLast("appendBatchToFile", c.userID, pair[1], pair[2], c.batch,
                               NoStr, "nil", 0))
        ELSE /\ pending' = pending \ {c}
             /\ Respond(MkLast("SaveBatch", c.userID, NoStr, NoStr, c.batch, NoStr, r.err, 0))
  /\ UNCHANGED <<backend, ctx, memoryStore, urls, req, deleteChan, worker>>

\* The process ends, with whatever calls were in progress, and a new one
\* starts on the same file: NewStorage calls NewFileStore.
Restart(openOK) ==
  /\ backend = "file"
  /\ LET r == NewFileStore(fileLog, openOK) IN
     /\ r.up
     /\ memoryStore' = r.store
     /\ Respond(MkLast("NewFileStore", NoStr, NoStr, NoStr, <<>>, NoStr, r.err, 0))
  /\ pending' = {}
  /\ UNCHANGED <<backend, ctx, urls, fileLog, req, deleteChan, worker>>

\* store.BatchDelete as the delete worker calls it, with the owner and the
\* id list of any request.
CallBatchDeleteMemory(userID, urlIDs) ==
  /\ backend = "memory"
  /\ LET r == MemoryStore_BatchDelete(memoryStore, userID, urlIDs) IN
     /\ memoryStore' = r.store
     /\ Respond(MkLast("BatchDelete", userID, NoStr, NoStr, urlIDs, NoStr, r.err, 0))
  /\ UNCHANGED <<backend, ctx, urls, fileLog, pending, req, deleteChan, worker>>

CallBatchDeletePostgres(userID, urlIDs, dbOK) ==
  /\ backend = "postgres"
  /\ LET r == PostgresStore_BatchDelete(urls, userID, urlIDs, dbOK) IN
     /\ urls' = r.table
     /\ Respond(MkLast("BatchDelete", userID, NoStr, NoStr, urlIDs, NoStr, r.err, 0))
  /\ UNCHANGED <<backend, ctx, memoryStore, fileLog, pending, req, deleteChan, worker>>

-----------------------------------------------------------------------------
\* The delete path.

\* The id lists a delete request can carry.
DeleteLists == {<<"a">>, <<"b">>, <<"a", "b">>}

\* A variant with a plain send, which waits while the channel is full.
DeleteUserURLsHandler_BlockingSend(userID, urlIDs) ==
  /\ Len(deleteChan) < QueueCap
  /\ deleteChan' = Append(deleteChan, [UserID |-> userID, URLIDs |-> urlIDs])
  /\ Respond(MkLast("send", userID, NoStr, NoStr, urlIDs, NoStr, "queued", StatusAccepted))
  /\ UNCHANGED <<backend, ctx, memoryStore, urls, fileLog, pending, req, worker>>

\* DeleteUserURLsHandler: a non-blocking send on deleteChan; 202 when the
\* channel took the request, 503 when it is full.
DeleteUserURLsHandler(userID, urlIDs) ==
  /\ IF Len(deleteChan) < QueueCap
     THEN /\ deleteChan' = Append(deleteChan, [UserID |-> userID, URLIDs |-> urlIDs])
          /\ Respond(MkLast("send", userID, NoStr, NoStr, urlIDs, NoStr, "queued", StatusAccepted))
     ELSE /\ UNCHANGED deleteChan
          /\ Respond(MkLast("send", userID, NoStr, NoStr, urlIDs, NoStr, "full",
                            StatusServiceUnavailable))
  /\ UNCHANGED <<backend, ctx, memoryStore, urls, fileLog, pending, req, worker>>

\* A variant of the early returns that lets a request without an owner
\* through to the queue.
DeleteUserURLsHandlerEarlyReturn_NoAuthCheck(userID, urlIDs, jsonOK) ==
  /\ ~jsonOK \/ urlIDs = <<>> \/ userID = NoStr
  /\ ~jsonOK => urlIDs = <<>>
  /\ IF ~jsonOK \/ urlIDs = <<>>
     THEN /\ UNCHANGED deleteChan
          /\ Respond(MkLast("DeleteUserURLsHandler", userID, NoStr, NoStr, urlIDs, NoStr,
                            IF jsonOK THEN "No URL IDs provided" ELSE "Invalid JSON",
                            StatusBadRequest))
     ELSE /\ Len(deleteChan) < QueueCap
          /\ deleteChan' = Append(deleteChan, [UserID |-> userID, URLIDs |-> urlIDs])
          /\ Respond(MkLast("send", userID, NoStr, NoStr, urlIDs, NoStr, "queued",
                            StatusAccepted))
  /\ UNCHANGED <<backend, ctx, memoryStore, urls, fileLog, pending, req, worker>>

\* DeleteUserURLsHandler, its returns before the send: a body that is not a
\* JSON list (jsonOK = FALSE) and an empty list are answered 400, then a
\* missing or empty owner is answered 401.
DeleteUserURLsHandlerEarlyReturn(userID, urlIDs, jsonOK) ==
  /\ ~jsonOK \/ urlIDs = <<>> \/ userID = NoStr
  /\ ~jsonOK => urlIDs = <<>>
  /\ Respond(MkLast("DeleteUserURLsHandler", userID, NoStr, NoStr, urlIDs, NoStr,
                    IF ~jsonOK THEN "Invalid JSON"
                    ELSE IF urlIDs = <<>> THEN "No URL IDs provided" ELSE "Unauthorized",
                    IF ~jsonOK \/ urlIDs = <<>> THEN StatusBadRequest
                    ELSE StatusUnauthorized))
  /\ UNCHANGED <<backend, ctx, memoryStore, urls, fileLog, pending, req, deleteChan, worker>>

-----------------------------------------------------------------------------
\* The listing path.

\* GetUserURLsHandler up to the return of storage.GetUserURLs.  A missing or
\* empty owner is answered 401 before any storage call, a failed call 500.
\* PostgresStore builds a map of its own, which the handler then reads alone:
\* 204 when it is empty, 200 with the list otherwise.  MemoryStore (and
\* FileStore through it) returns userURLs[userID] itself, and the handler
\* goes on to read that map after GetUserURLs has released the mutex.
GetUserURLsHandler(p, userID, dbOK) ==
  /\ req[p].pc = "idle"
  /\ IF userID = NoStr
     THEN /\ UNCHANGED req
          /\ Respond(MkLast("GetUserURLsHandler", userID, NoStr, NoStr, <<>>, NoStr,
                            "Unauthorized", StatusUnauthorized))
     ELSE IF backend = "postgres"
     THEN LET r == PostgresStore_GetUserURLs(urls, userID, dbOK) IN
          /\ UNCHANGED req
          /\ Respond(MkLast("GetUserURLs", userID, NoStr, NoStr, <<>>, NoStr,
                            IF r.ok THEN "ok" ELSE "not ok",
                            IF ~r.ok THEN StatusInternalServerError
                            ELSE IF r.urls = EmptyMap THEN StatusNoContent ELSE StatusOK))
     ELSE LET r == MemoryStore_GetUserURLs(memoryStore, userID) IN
          IF r.ok
          THEN /\ req' = [req EXCEPT ![p] = [Idle EXCEPT !.pc = "range", !.userID = userID]]
               /\ Respond(MkLast("GetUserURLs", userID, NoStr, NoStr, <<>>, NoStr, "ok", 0))
          ELSE /\ UNCHANGED req
               /\ Respond(MkLast("GetUserURLs", userID, NoStr, NoStr, <<>>, NoStr, "not ok",
                                 StatusInternalServerError))
  /\ UNCHANGED <<backend, ctx, memoryStore, urls, fileLog, pending, deleteChan, worker>>

\* A write of the owner's map made by the latest step, that is, after the
\* handler p got the map and before it has finished reading it.
RacingWrite(p) ==
  /\ req[p].pc = "range"
  /\ last.userID = req[p].userID
  /\ last.res = "nil"
  /\ \/ backend = "memory" /\ last.op \in {"SaveID", "SaveBatch"}
     \/ backend = "file" /\ last.op = "memoryStore.SaveID"

\* GetUserURLsHandler from len(urls) to the response, reading the store's own
\* map without the mutex: 204 when it is empty, else 200 with the pairs the
\* range met.
GetUserURLsRange(p) ==
  /\ req[p].pc = "range"
  /\ req' = [req EXCEPT ![p] = Idle]
  /\ Respond(MkLast("range", req[p].userID, NoStr, NoStr, <<>>, NoStr, "nil",
                    IF MemoryStore_GetUserURLs(memoryStore, req[p].userID).urls = EmptyMap
                    THEN StatusNoContent ELSE StatusOK))
  /\ UNCHANGED <<backend, ctx, memoryStore, urls, fileLog, pending, deleteChan, worker>>

\* The other outcome of reading a map while it is written: the runtime stops
\* the process ("concurrent map iteration and map write").  Its requests and
\* its queue are gone; the next process starts from an empty store, or from
\* the file.
GetUserURLsRangeThrow(p) ==
  /\ RacingWrite(p)
  /\ req' = [q \in Procs |-> Idle]
  /\ pending' = {}
  /\ deleteChan' = <<>>
  /\ memoryStore' = IF backend = "file" THEN NewFileStore(fileLog, TRUE).store
                    ELSE NewMemoryStore
  /\ Respond(MkLast("fatal error", req[p].userID, NoStr, NoStr, <<>>, NoStr,
                    "concurrent map iteration and map write", 0))
  /\ UNCHANGED <<backend, ctx, urls, fileLog, worker>>

\* A variant of the receive that a stopped worker can make as well.
WorkerReceive_AfterStop ==
  /\ worker.pc \in {"select", "stopped"}
  /\ deleteChan # <<>>
  /\ worker' = [pc |-> "delete", UserID |-> Head(deleteChan).UserID,
                URLIDs |-> Head(deleteChan).URLIDs]
  /\ deleteChan' = Tail(deleteChan)
  /\ Respond(MkLast("receive", Head(deleteChan).UserID, NoStr, NoStr,
                    Head(deleteChan).URLIDs, NoStr, "nil", 0))
  /\ UNCHANGED <<backend, ctx, memoryStore, urls, fileLog, pending, req>>

\* A variant of the receive that leaves the request it takes in the channel.
WorkerReceive_NoRemove ==
  /\ worker.pc = "select"
  /\ deleteChan # <<>>
  /\ worker' = [pc |-> "delete", UserID |-> Head(deleteChan).UserID,
                URLIDs |-> Head(deleteChan).URLIDs]
  /\ Respond(MkLast("receive", Head(deleteChan).UserID, NoStr, NoStr,
                    Head(deleteChan).URLIDs, NoStr, "nil", 0))
  /\ UNCHANGED <<backend, ctx, memoryStore, urls, fileLog, pending, req, deleteChan>>

\* StartDeleteWorker: case req := <-deleteChan.
WorkerReceive ==
  /\ worker.pc = "select"
  /\ deleteChan # <<>>
  /\ worker' = [pc |-> "delete", UserID |-> Head(deleteChan).UserID,
                URLIDs |-> Head(deleteChan).URLIDs]
  /\ deleteChan' = Tail(deleteChan)
  /\ Respond(MkLast("receive", Head(deleteChan).UserID, NoStr, NoStr,
                    Head(deleteChan).URLIDs, NoStr, "nil", 0))
  /\ UNCHANGED <<backend, ctx, memoryStore, urls, fileLog, pending, req>>

\* StartDeleteWorker: store.BatchDelete(req.UserID, req.URLIDs); an error is
\* logged and the loop goes on.
WorkerBatchDeleteMemory ==
  /\ worker.pc = "delete"
  /\ backend = "memory"
  /\ LET r == MemoryStore_BatchDelete(memoryStore, worker.UserID, worker.URLIDs) IN
     /\ memoryStore' = r.store
     /\ Respond(MkLast("BatchDelete", worker.UserID, NoStr, NoStr, worker.URLIDs, NoStr, r.err, 0))
  /\ worker' = WorkerSelect
  /\ UNCHANGED <<backend, ctx, urls, fileLog, pending, req, deleteChan>>

\* Variants of the worker's call: one keeps the request after an error and
\* calls again, one ends the worker after an error.
WorkerBatchDeletePostgres_Retry(dbOK) ==
  /\ worker.pc = "delete"
  /\ backend = "postgres"
  /\ LET r == PostgresStore_BatchDelete(urls, worker.UserID, worker.URLIDs, dbOK) IN
     /\ urls' = r.table
     /\ Respond(MkLast("BatchDelete", worker.UserID, NoStr, NoStr, worker.URLIDs, NoStr, r.err, 0))
     /\ worker' = IF r.err = "nil" THEN WorkerSelect ELSE worker
  /\ UNCHANGED <<backend, ctx, memoryStore, fileLog, pending, req, deleteChan>>

WorkerBatchDeletePostgres_StopOnError(dbOK) ==
  /\ worker.pc = "delete"
  /\ backend = "postgres"
  /\ LET r == PostgresStore_BatchDelete(urls, worker.UserID, worker.URLIDs, dbOK) IN
     /\ urls' = r.table
     /\ Respond(MkLast("BatchDelete", worker.UserID, NoStr, NoStr, worker.URLIDs, NoStr, r.err, 0))
     /\ worker' = IF r.err = "nil" THEN WorkerSelect ELSE [WorkerSelect EXCEPT !.pc = "stopped"]
  /\ UNCHANGED <<backend, ctx, memoryStore, fileLog, pending, req, deleteChan>>

WorkerBatchDeletePostgres(dbOK) ==
  /\ worker.pc = "delete"
  /\ backend = "postgres"
  /\ LET r == PostgresStore_BatchDelete(urls, worker.UserID, worker.URLIDs, dbOK) IN
     /\ urls' = r.table
     /\ Respond(MkLast("BatchDelete", worker.UserID, NoStr, NoStr, worker.URLIDs, NoStr, r.err, 0))
  /\ worker' = WorkerSelect
  /\ UNCHANGED <<backend, ctx, memoryStore, fileLog, pending, req, deleteChan>>

\* The context passed to StartDeleteWorker is cancelled.
Cancel ==
  /\ ctx = "active"
  /\ ctx' = "done"
  /\ Respond(MkLast("cancel", NoStr, NoStr, NoStr, <<>>, NoStr, "nil", 0))
  /\ UNCHANGED <<backend, memoryStore, urls, fileLog, pending, req, deleteChan, worker>>

\* StartDeleteWorker: case <-ctx.Done(): return.  When a request is waiting
\* as well, select takes either case.
WorkerStop ==
  /\ worker.pc = "select"
  /\ ctx = "done"
  /\ worker' = [WorkerSelect EXCEPT !.pc = "stopped"]
  /\ Respond(MkLast("stop", NoStr, NoStr, NoStr, <<>>, NoStr, "nil", 0))
  /\ UNCHANGED <<backend, ctx, memoryStore, urls, fileLog, pending, req, deleteChan>>

-----------------------------------------------------------------------------
\* Specifications.

\* Concurrent creation requests, on each of the three backends.
NextCreate ==
  \/ \E p \in Procs, u \in Users, url \in URLSet : PostHandler(p, u, url)
  \/ \E p \in Procs : GenerateFails(p)
  \/ \E p \in Procs, g \in IDs : SaveIDMemory(p, g)
  \/ \E p \in Procs, g \in IDs, dbOK \in BOOLEAN : SaveIDPostgres(p, g, dbOK)
  \/ \E p \in Procs, g \in IDs : SaveIDFileMemory(p, g)
  \/ \E p \in Procs, ioOK \in BOOLEAN : SaveIDFileAppend(p, ioOK)

SpecCreate == Init /\ [][NextCreate]_vars

\* Creation requests issued one after another: a request starts only when no
\* other is in progress.
NoRequestInProgress == \A q \in Procs : req[q].pc = "idle"

NextSeq ==
  \/ \E p \in Procs, u \in Users, url \in URLSet :
        NoRequestInProgress /\ PostHandler(p, u, url)
  \/ \E p \in Procs : GenerateFails(p)
  \/ \E p \in Procs, g \in IDs : SaveIDMemory(p, g)
  \/ \E p \in Procs, g \in IDs, dbOK \in BOOLEAN : SaveIDPostgres(p, g, dbOK)
  \/ \E p \in Procs, g \in IDs : SaveIDFileMemory(p, g)
  \/ \E p \in Procs, ioOK \in BOOLEAN : SaveIDFileAppend(p, ioOK)

SpecSeq == Init /\ [][NextSeq]_vars

\* The same, with the goroutine of a request in progress running on: the
\* iteration it is in is carried out.
LoopStep ==
  \E p \in Procs :
    \/ GenerateFails(p)
    \/ \E g \in IDs : SaveIDMemory(p, g)
    \/ \E g \in IDs, dbOK \in BOOLEAN : SaveIDPostgres(p, g, dbOK)
    \/ \E g \in IDs : SaveIDFileMemory(p, g)
    \/ \E ioOK \in BOOLEAN : SaveIDFileAppend(p, ioOK)

SpecSeqFair == SpecSeq /\ WF_vars(LoopStep)

\* The storage calls alone, in any order and with any arguments.
NextStore ==
  \/ \E u \in Users, i \in IDs, url \in URLSet : CallSaveIDMemory(u, i, url)
  \/ \E u \in Users, i \in IDs, url \in URLSet, dbOK \in BOOLEAN :
        CallSaveIDPostgres(u, i, url, dbOK)
  \/ \E u \in Users, i \in IDs, url \in URLSet : CallSaveIDFile(u, i, url)
  \/ \E c \in pending, ioOK \in BOOLEAN : CallSaveIDFileAppend(c, ioOK)
  \/ \E u \in Users, pairs \in BatchPairs : \E order \in Orders(DOMAIN pairs) :
        CallSaveBatchMemory(u, pairs, order)
  \/ \E u \in Users, pairs \in BatchPairs, dbOK \in BOOLEAN :
        \E order \in Orders(DOMAIN pairs) : CallSaveBatchPostgres(u, pairs, order, dbOK)
  \/ \E u \in Users, pairs \in BatchPairs :
        \E order \in Orders(DOMAIN pairs), fileOrder \in Orders(DOMAIN pairs) :
          CallSaveBatchFile(u, pairs, order, fileOrder)
  \/ \E c \in pending, ioOK \in BOOLEAN : CallSaveBatchFileAppend(c, ioOK)

SpecStore == Init /\ [][NextStore]_vars

\* The same with the BatchDelete calls the delete worker makes.
NextRecords ==
  \/ NextStore
  \/ \E u \in Users, l \in DeleteLists : CallBatchDeleteMemory(u, l)
  \/ \E u \in Users, l \in DeleteLists, dbOK \in BOOLEAN : CallBatchDeletePostgres(u, l, dbOK)

SpecRecords == Init /\ [][NextRecords]_vars

\* The file backend across restarts: saves, and the process replaced by a new
\* one that replays the file, which it can open.
InitFile == Init /\ backend = "file"

NextFile ==
  \/ \E u \in Users, i \in IDs, url \in URLSet : CallSaveIDFile(u, i, url)
  \/ \E c \in pending, ioOK \in BOOLEAN : CallSaveIDFileAppend(c, ioOK)
  \/ \E u \in Users, pairs \in BatchPairs :
        \E order \in Orders(DOMAIN pairs), fileOrder \in Orders(DOMAIN pairs) :
          CallSaveBatchFile(u, pairs, order, fileOrder)
  \/ \E c \in pending, ioOK \in BOOLEAN : CallSaveBatchFileAppend(c, ioOK)
  \/ Restart(TRUE)

SpecFile == InitFile /\ [][NextFile]_vars

\* The writers of the file: concurrent SaveID and SaveBatch calls of one owner
\* for one URL, with three ids, so that a batch of two records and a record
\* of another call can be in progress together.
LogIDs == {"a", "b", "c"}

LogPairs == UNION {[D -> {"u1"}] : D \in (SUBSET LogIDs) \ {{}}}

NextLog ==
  \/ \E i \in LogIDs : CallSaveIDFile("A", i, "u1")
  \/ \E c \in pending, ioOK \in BOOLEAN : CallSaveIDFileAppend(c, ioOK)
  \/ \E pairs \in LogPairs :
        \E order \in Orders(DOMAIN pairs), fileOrder \in Orders(DOMAIN pairs) :
          CallSaveBatchFile("A", pairs, order, fileOrder)
  \/ \E c \in pending, ioOK \in BOOLEAN : CallSaveBatchFileAppend(c, ioOK)
  \/ Restart(TRUE)

SpecLog == InitFile /\ [][NextLog]_vars

\* Listing and delete requests, with or without an owner identity, while
\* records are saved.
NextList ==
  \/ \E u \in Users, i \in IDs, url \in URLSet : CallSaveIDMemory(u, i, url)
  \/ \E u \in Users, i \in IDs, url \in URLSet, dbOK \in BOOLEAN :
        CallSaveIDPostgres(u, i, url, dbOK)
  \/ \E u \in Users, i \in IDs, url \in URLSet : CallSaveIDFile(u, i, url)
  \/ \E c \in pending, ioOK \in BOOLEAN : CallSaveIDFileAppend(c, ioOK)
  \/ \E u \in Users, pairs \in BatchPairs : \E order \in Orders(DOMAIN pairs) :
        CallSaveBatchMemory(u, pairs, order)
  \/ \E p \in Procs, u \in Users \cup {NoStr}, dbOK \in BOOLEAN : GetUserURLsHandler(p, u, dbOK)
  \/ \E p \in Procs : GetUserURLsRange(p)
  \/ \E p \in Procs : GetUserURLsRangeThrow(p)
  \/ \E u \in Users \cup {NoStr}, l \in DeleteLists \cup {<<>>}, jsonOK \in BOOLEAN :
        DeleteUserURLsHandlerEarlyReturn(u, l, jsonOK)

SpecList == Init /\ [][NextList]_vars

\* Startup on a file with any content: up to MaxLog JSON values, each a record
\* of some owner (or of none), id and URL, or content that does not decode.
MaxLog == 2

FileContents == {FileRecord(u, i, url) : u \in Users \cup {NoStr}, i \in IDs, url \in URLSet}
                  \cup {Garbage}

InitReplay ==
  /\ backend = "file"
  /\ memoryStore = NewMemoryStore
  /\ urls = {}
  /\ fileLog \in UNION {[1..n -> FileContents] : n \in 0..MaxLog}
  /\ pending = {}
  /\ req = [p \in Procs |-> Idle]
  /\ deleteChan = <<>>
  /\ worker = WorkerSelect
  /\ ctx = "active"
  /\ last = MkLast("init", NoStr, NoStr, NoStr, <<>>, NoStr, "nil", 0)

NextReplay == \E openOK \in BOOLEAN : Restart(openOK)

SpecReplay == InitReplay /\ [][NextReplay]_vars

\* The delete path on the backends that implement BatchDelete (FileStore has
\* no such method): SaveID calls create the records, delete requests are
\* queued at any moment and the worker applies them.
InitDelete == Init /\ backend \in {"memory", "postgres"}

NextDelete ==
  \/ \E u \in Users, i \in IDs, url \in URLSet : CallSaveIDMemory(u, i, url)
  \/ \E u \in Users, i \in IDs, url \in URLSet, dbOK \in BOOLEAN :
        CallSaveIDPostgres(u, i, url, dbOK)
  \/ \E u \in Users, l \in DeleteLists : DeleteUserURLsHandler(u, l)
  \/ WorkerReceive
  \/ WorkerBatchDeleteMemory
  \/ \E dbOK \in BOOLEAN : WorkerBatchDeletePostgres(dbOK)

SpecDelete == InitDelete /\ [][NextDelete]_vars

\* The delete worker with its queue and its context: requests arrive at any
\* moment, the context can be cancelled at any moment.
NextWorker ==
  \/ \E u \in Users, l \in DeleteLists : DeleteUserURLsHandler(u, l)
  \/ WorkerReceive
  \/ WorkerBatchDeleteMemory
  \/ \E dbOK \in BOOLEAN : WorkerBatchDeletePostgres(dbOK)
  \/ Cancel
  \/ WorkerStop

SpecWorker == InitDelete /\ [][NextWorker]_vars

\* The same with the scheduling the Go runtime gives the worker goroutine: a
\* BatchDelete call that was started returns, and a select that finds
\* ctx.Done() ready again and again takes that case at some point (select
\* picks among its ready cases at random).
SpecWorkerFair ==
  /\ SpecWorker
  /\ WF_vars(WorkerBatchDeleteMemory)
  /\ WF_vars(\E dbOK \in BOOLEAN : WorkerBatchDeletePostgres(dbOK))
  /\ SF_vars(WorkerStop)

-----------------------------------------------------------------------------
\* Properties.

\* C1 (SpecCreate): with the memory or file backend, under any interleaving of
\* concurrent creation requests, at most one short id is bound to a given
\* original URL in the forward map.
C1_OneIDPerURL ==
  backend \in {"memory", "file"} =>
    \A i, j \in DOMAIN memoryStore.URLs :
      memoryStore.URLs[i] = memoryStore.URLs[j] => i = j

\* C2 (SpecCreate): no short id is handed out for two different URLs: when two
\* creation requests for distinct URLs are answered one right after the other,
\* the ids they return differ.
C2_DistinctURLsDistinctIDs ==
  [][(Answered(last) /\ Answered(last') /\ last.url # last'.url) => last.id # last'.id]_vars

C4_GetHidesDeleted ==
  (last.op = "BatchDelete" /\ last.res = "nil") =>
    \A i \in Range(last.ids) : Owns(last.userID, i) => ~Get(i).ok

\* C5 (SpecSeq): when creation requests are issued one after another, a
\* request for the URL that the previous answer was about is answered 409 with
\* the same short id by the reverse lookup alone, the store unchanged.
C5_RepeatedCreation ==
  [][(Answered(last) /\ last'.op = "GetIDByURL" /\ last'.url = last.url)
     => (last'.status = StatusConflict /\ last'.id = last.id /\ UNCHANGED store)]_vars

\* C6 (SpecStore): in every reachable state of the memory store, whatever
\* SaveID and SaveBatch calls were made, every reverse entry url -> id has the
\* forward entry id -> url and every URL of the forward map has a reverse
\* entry.  Every state between two calls is checked: a call holds s.mu from
\* its first statement to its return.
C6_ForwardReverseConsistent ==
  /\ \A u \in DOMAIN memoryStore.reverseURLs :
       /\ memoryStore.reverseURLs[u] \in DOMAIN memoryStore.URLs
       /\ memoryStore.URLs[memoryStore.reverseURLs[u]] = u
  /\ \A i \in DOMAIN memoryStore.URLs : memoryStore.URLs[i] \in DOMAIN memoryStore.reverseURLs

\* SaveBatch has stored two ids for one URL on the memory backend, so that the
\* reverse entry of that URL was written twice.
C6_Witness ==
  /\ backend = "memory"
  /\ last.op = "SaveBatch"
  /\ last.res = "nil"
  /\ Len(last.ids) = 2
  /\ \A i \in IDs : i \in DOMAIN memoryStore.URLs
  /\ \A i, j \in IDs : memoryStore.URLs[i] = memoryStore.URLs[j]

\* C7 (SpecStore), as stated: in every backend SaveID called with an id bound
\* to a different URL returns AlreadyExists and leaves the store as it was.
C7_AlreadyExists_AsStated ==
  [][(last'.op = "SaveID" /\ last'.prev \notin {NoStr, last'.url})
     => (last'.res = "AlreadyExists" /\ UNCHANGED store)]_vars

\* C7 (SpecStore), amended: SaveID called with an id bound to a different URL
\* leaves the store as it was in every backend; MemoryStore and FileStore
\* return AlreadyExists, PostgresStore drops the INSERT and returns nil unless
\* the statement itself fails.
C7_AlreadyExists ==
  [][(last'.op = "SaveID" /\ last'.prev \notin {NoStr, last'.url})
     => (/\ UNCHANGED store
         /\ backend \in {"memory", "file"} => last'.res = "AlreadyExists"
         /\ backend = "postgres" => last'.res \in {"nil", "dbError"})]_vars

\* SaveID has been called with an id that another URL holds, by a caller who
\* is not the owner of that record.
C7_Witness ==
  /\ last.op = "SaveID"
  /\ last.prev \notin {NoStr, last.url}
  /\ ~Owns(last.userID, last.id)
  /\ Get(last.id) = [url |-> last.prev, ok |-> TRUE]

\* C8 (SpecStore): SaveID called again with a stored (id, originalURL) pair
\* leaves the forward map, the reverse map, the owner index, the table and the
\* file exactly as they were: no second record.
C8_ResubmitUnchanged ==
  [][(last'.op = "SaveID" /\ last'.prev = last'.url) => UNCHANGED store]_vars

\* The stored pair has been resubmitted by a caller who is not its owner,
\* while the reverse lookup of the URL names another id.
C8_Witness ==
  /\ last.op = "SaveID"
  /\ last.prev = last.url
  /\ ~Owns(last.userID, last.id)
  /\ GetIDByURL(last.url).ok
  /\ backend # "postgres" => GetIDByURL(last.url).id # last.id

\* C9 (SpecDelete): after BatchDelete(owner, ids) returns nil, every id in ids
\* that the owner owns is tombstoned.
C9_OwnedIDsTombstoned ==
  (last.op = "BatchDelete" /\ last.res = "nil") =>
    \A i \in Range(last.ids) : Owns(last.userID, i) => IsDeleted(i)

\* C10 (SpecDelete): BatchDelete(ownerA, ids) changes no record owned by
\* another owner: its URL, its owner and its tombstone are the same before and
\* after the call, whatever ids are passed.
C10_DeleteIsolation ==
  [][last'.op = "BatchDelete"
     => \A i \in IDs :
          (\E u \in Users \ {last'.userID} : Owns(u, i)) => RecordOf(i)' = RecordOf(i)]_vars

\* BatchDelete on the relational backend was given an id of the caller, now
\* tombstoned, and an id of another owner, still not tombstoned.
C10_Witness ==
  /\ backend = "postgres"
  /\ last.op = "BatchDelete"
  /\ last.res = "nil"
  /\ \E i \in Range(last.ids) : Owns(last.userID, i) /\ IsDeleted(i)
  /\ \E i \in Range(last.ids) :
       /\ \E u \in Users \ {last.userID} : Owns(u, i)
       /\ ~IsDeleted(i)

\* C11 (SpecDelete): once BatchDelete(owner, ids) has been applied, no id of
\* ids that the owner owns is in the result of GetUserURLs(owner).
C11_ListingHidesDeleted ==
  (last.op = "BatchDelete" /\ last.res = "nil") =>
    \A i \in Range(last.ids) :
      Owns(last.userID, i) => i \notin DOMAIN GetUserURLs(last.userID).urls

\* C12 (SpecStore): the owner index of the memory store agrees with the
\* records.  After every step: each listed pair is a pair of the forward map
\* and each id of the forward map is listed under exactly one owner; a pair
\* once listed stays listed; a pair that the step added to an owner's listing
\* is one that the step's SaveID or SaveBatch call passed for that owner; and
\* the pairs of a call that returned nil are listed under its owner.
C12_OwnerIndexAgrees ==
  [][LET L(u) == MemoryStore_GetUserURLs(memoryStore, u)
         Listed(u, i, url) == i \in DOMAIN L(u).urls /\ L(u).urls[i] = url
         LAfter(u) == MemoryStore_GetUserURLs(memoryStore', u)
         ListedAfter(u, i, url) == i \in DOMAIN LAfter(u).urls /\ LAfter(u).urls[i] = url
     IN /\ (\A u \in Users : \A i \in DOMAIN L(u).urls :
               i \in DOMAIN memoryStore.URLs /\ memoryStore.URLs[i] = L(u).urls[i])'
        /\ (\A i \in DOMAIN memoryStore.URLs :
               Cardinality({u \in Users : i \in DOMAIN L(u).urls}) = 1)'
        /\ \A u \in Users, i \in IDs, url \in URLSet :
             /\ Listed(u, i, url) => ListedAfter(u, i, url)
             /\ (~Listed(u, i, url) /\ ListedAfter(u, i, url)) =>
                  /\ u = last'.userID
                  /\ \/ last'.op \in {"SaveID", "memoryStore.SaveID"}
                           /\ i = last'.id /\ url = last'.url
                     \/ last'.op \in {"SaveBatch", "SaveBatch loop"}
                           /\ <<i, url>> \in Range(last'.ids)
        /\ (backend # "postgres" /\ last'.op \in {"SaveID", "memoryStore.SaveID"}
                /\ last'.res = "nil")
             => ListedAfter(last'.userID, last'.id, last'.url)
        /\ (backend # "postgres" /\ last'.op = "SaveBatch" /\ last'.res = "nil")
             => \A k \in 1..Len(last'.ids) :
                  ListedAfter(last'.userID, last'.ids[k][1], last'.ids[k][2])]_vars

\* Two owners each have a listing: the owner of the SaveBatch call just made,
\* and another one.
C12_Witness ==
  /\ backend = "memory"
  /\ last.op = "SaveBatch"
  /\ last.res = "nil"
  /\ \E i \in IDs : i \in DOMAIN MemoryStore_GetUserURLs(memoryStore, last.userID).urls
  /\ \E u \in Users \ {last.userID} :
       MemoryStore_GetUserURLs(memoryStore, u).urls # EmptyMap

\* C13 (SpecWorker): submitting a delete request never blocks: in every state
\* the handler can run for any owner and list; with room in the queue the
\* request is appended and answered 202, with a full queue it is answered 503
\* and the queue stays as it was; the queue never exceeds its capacity.
C13_SubmitNeverBlocks ==
  [][/\ \A u \in Users, l \in DeleteLists : ENABLED DeleteUserURLsHandler(u, l)
     /\ Len(deleteChan') <= QueueCap
     /\ last'.op = "send" =>
          IF Len(deleteChan) < QueueCap
          THEN /\ last'.status = StatusAccepted
               /\ deleteChan' = Append(deleteChan, [UserID |-> last'.userID,
                                                    URLIDs |-> last'.ids])
          ELSE /\ last'.status = StatusServiceUnavailable
               /\ deleteChan' = deleteChan]_vars

\* A request was rejected with 503 while the queue was full.
C13_Witness ==
  /\ last.op = "send"
  /\ last.status = StatusServiceUnavailable
  /\ Len(deleteChan) = QueueCap

\* C14 (SpecWorker): a request leaves the queue only when the worker takes
\* it, and the worker takes one only when it holds none; the worker's
\* BatchDelete call is made with the owner and ids of the request it holds,
\* and after the call, failed or not, it holds no request: one call for each
\* request taken, no retry.
C14_OneCallPerRequest ==
  [][/\ last'.op = "receive" =>
          /\ worker.pc = "select"
          /\ deleteChan # <<>>
          /\ worker' = [pc |-> "delete", UserID |-> Head(deleteChan).UserID,
                        URLIDs |-> Head(deleteChan).URLIDs]
          /\ deleteChan' = Tail(deleteChan)
     /\ last'.op = "BatchDelete" =>
          /\ worker.pc = "delete"
          /\ last'.userID = worker.UserID
          /\ last'.ids = worker.URLIDs
          /\ worker'.pc = "select"
          /\ deleteChan' = deleteChan
     /\ last'.op \notin {"receive", "BatchDelete"} =>
          /\ worker'.pc = "delete" => worker' = worker
          /\ deleteChan' \in {deleteChan} \cup
                {Append(deleteChan, [UserID |-> u, URLIDs |-> l]) : u \in Users, l \in DeleteLists}]_vars

\* A BatchDelete call has failed; the worker holds no request and the queue
\* is empty.
C14_Witness ==
  /\ last.op = "BatchDelete"
  /\ last.res = "dbError"
  /\ worker.pc = "select"
  /\ deleteChan = <<>>

\* C15 (SpecWorkerFair): once the context is cancelled the worker eventually
\* stops; it stops only from its select, never while it holds a request whose
\* BatchDelete call has not returned; once stopped it stays stopped and
\* neither takes a request nor calls BatchDelete.
C15_WorkerTerminates ==
  /\ (ctx = "done") ~> (worker.pc = "stopped")
  /\ [][/\ (worker.pc # "stopped" /\ worker'.pc = "stopped") => worker.pc = "select"
        /\ worker.pc = "stopped" =>
             /\ worker' = worker
             /\ last'.op \notin {"receive", "BatchDelete"}]_vars

\* The worker has stopped and a request is left in the queue.
C15_Witness ==
  /\ worker.pc = "stopped"
  /\ ctx = "done"
  /\ deleteChan # <<>>

\* C16 (SpecWorker): after the context has been cancelled the worker takes no
\* further request from the queue.
C16_NoReceiveAfterCancel ==
  [][ctx = "done" => last'.op # "receive"]_vars

\* C17 (SpecWorker): after a failed BatchDelete the worker is running, back in
\* its select, and takes the next request when the queue holds one.
C17_ErrorNotPropagated ==
  (last.op = "BatchDelete" /\ last.res # "nil") =>
    /\ worker = WorkerSelect
    /\ deleteChan # <<>> => ENABLED WorkerReceive

\* A BatchDelete call has failed while another request waits in the queue.
C17_Witness ==
  /\ last.op = "BatchDelete"
  /\ last.res = "dbError"
  /\ deleteChan # <<>>

\* C18 (SpecSeq): a SaveID error that is not an id collision (a persistence
\* failure of the file or of the database) ends the request at once with a
\* failure: no further iteration.
C18_OtherErrorsAbort ==
  (last.op = "SaveID" /\ last.res \in {"dbError", "fileError"}) =>
    /\ last.status = StatusBadRequest
    /\ \A p \in Procs : req[p].pc = "idle"

\* C19 (SpecSeqFair): a request that entered the loop makes at most maxRetries
\* attempts; it ends either at its first successful SaveID, answered 201 with
\* the generated id, or with a failure at the attempt that is the tenth
\* failed one, and in no other way; a failed attempt before the tenth goes on
\* to the next; the request always ends.
C19_AtMostTenAttempts ==
  /\ \A p \in Procs : (req[p].pc # "idle") ~> (req[p].pc = "idle")
  /\ [][\A p \in Procs :
          /\ req'[p].tries < maxRetries
          /\ (req[p].pc # "idle" /\ req'[p].pc = "idle") =>
               \/ /\ last'.op = "SaveID"
                  /\ last'.res = "nil"
                  /\ last'.status = StatusCreated
                  /\ last'.url = req[p].url
                  /\ req[p].pc = "append" => last'.id = req[p].id
               \/ /\ last'.res # "nil"
                  /\ last'.status = StatusBadRequest
                  /\ req[p].tries + 1 = maxRetries
          /\ (req[p].pc # "idle" /\ req'[p].pc # "idle" /\ req'[p] # req[p]) =>
               \/ /\ last'.res # "nil"
                  /\ last'.status = 0
                  /\ req'[p].pc = "loop"
                  /\ req'[p].tries = req[p].tries + 1
               \/ /\ last'.op = "memoryStore.SaveID"
                  /\ req'[p].pc = "append"
                  /\ req'[p].tries = req[p].tries]_vars

\* A request has failed at its tenth attempt, a SaveID that returned an error.
C19_Witness ==
  /\ last.op = "SaveID"
  /\ last.res # "nil"
  /\ last.status = StatusBadRequest
  /\ \A p \in Procs : req[p].pc = "idle"

\* C20 (SpecSeq): with the relational backend, an id answered as newly
\* created is stored for the submitted URL.
C20_CreatedIsPersisted ==
  (backend = "postgres" /\ last.status = StatusCreated) =>
    Get(last.id) = [url |-> last.url, ok |-> TRUE]

\* C21 (SpecStore): in the relational backend SaveBatch is all-or-nothing.  A
\* call that returned nil has stored every pair of the batch, and a call that
\* returned an error has left the table as it was.
C21_BatchAllOrNothing ==
  [][(backend = "postgres" /\ last'.op = "SaveBatch") =>
       IF last'.res = "nil"
       THEN \A k \in 1..Len(last'.ids) :
              PostgresStore_Get(urls', last'.ids[k][1]) =
                [url |-> last'.ids[k][2], ok |-> TRUE]
       ELSE urls' = urls]_vars

C23_FirstErrorAborts ==
  [][(backend # "postgres" /\ last'.op = "SaveBatch" /\ ~FsMuHeld) =>
       LET ids == last'.ids
           Exists(k) == ids[k][1] \in DOMAIN memoryStore.URLs
           Failing == {k \in 1..Len(ids) : Exists(k)}
           first == CHOOSE k \in Failing : \A j \in Failing : k <= j
           LAfter == MemoryStore_GetUserURLs(memoryStore', last'.userID).urls
       IN Failing # {} =>
            /\ last'.res = "AlreadyExists"
            /\ \A k \in 1..Len(ids) :
                 IF k < first
                 THEN /\ MemoryStore_Get(memoryStore', ids[k][1]) =
                           [url |-> ids[k][2], ok |-> TRUE]
                      /\ ids[k][1] \in DOMAIN LAfter
                      /\ LAfter[ids[k][1]] = ids[k][2]
                 ELSE MemoryStore_Get(memoryStore', ids[k][1]) =
                        MemoryStore_Get(memoryStore, ids[k][1])
            /\ fileLog' = fileLog]_vars

\* A batch of two pairs was rejected at its second pair: the first pair is
\* stored for the owner of the call, the id of the second is bound to
\* another URL and belongs to another owner.
C23_Witness ==
  /\ backend \in {"memory", "file"}
  /\ last.op = "SaveBatch"
  /\ last.res = "AlreadyExists"
  /\ Len(last.ids) = 2
  /\ Get(last.ids[1][1]).url = last.ids[1][2]
  /\ Owns(last.userID, last.ids[1][1])
  /\ Get(last.ids[2][1]).ok
  /\ Get(last.ids[2][1]).url # last.ids[2][2]
  /\ ~Owns(last.userID, last.ids[2][1])

\* C24 (SpecFile): file backend: a restart made while no write is in
\* progress rebuilds the forward map and the reverse map that were in memory
\* before the restart.
C24_ReplayRebuildsMaps ==
  [][(last'.op = "NewFileStore" /\ pending = {}) =>
       /\ memoryStore'.URLs = memoryStore.URLs
       /\ memoryStore'.reverseURLs = memoryStore.reverseURLs]_vars

\* C25 (SpecLog): the file only grows, by at most one record a step, and what
\* was written stays as it was.  A SaveID call that returns nil has appended
\* the record of its arguments as the last step before its return.  When a
\* SaveBatch call returns nil the file ends with one record per pair of the
\* batch, with no record of another call among them.
C25_LogAppendOnly ==
  [][/\ Len(fileLog') \in {Len(fileLog), Len(fileLog) + 1}
     /\ SubSeq(fileLog', 1, Len(fileLog)) = fileLog
     /\ (last'.op = "SaveID" /\ last'.res = "nil") =>
          fileLog' = Append(fileLog, FileRecord(last'.userID, last'.id, last'.url))
     /\ (last'.op = "SaveBatch" /\ last'.res = "nil") =>
          LET n == Len(last'.ids) IN
          /\ Len(fileLog') >= n
          /\ SubSeq(fileLog', Len(fileLog') - n + 1, Len(fileLog')) =
               [k \in 1..n |-> FileRecord(NoStr, last'.ids[k][1], last'.ids[k][2])]]_vars

\* A batch of two pairs has returned nil while a SaveID call that had written
\* memory was waiting for fs.mu with its record.
C25_Witness ==
  /\ backend = "file"
  /\ last.op = "SaveBatch"
  /\ last.res = "nil"
  /\ Len(last.ids) = 2
  /\ \E c \in pending : c.batch = <<>>

\* C26 (SpecReplay): replay of a file that could be opened, whose content
\* all decodes and that holds several records for one short id binds the id
\* to the URL of the last of them.
C26_ReplayLastWriteWins ==
  [][(last'.op = "NewFileStore" /\ last'.res # "fileError"
        /\ \A k \in 1..Len(fileLog) : fileLog[k].valid) =>
       \A i \in IDs :
         LET Recs == {k \in 1..Len(fileLog) : fileLog[k].short_url = i}
             final == CHOOSE k \in Recs : \A j \in Recs : j <= k
         IN Cardinality(Recs) >= 2 =>
              MemoryStore_Get(memoryStore', i) =
                [url |-> fileLog[final].original_url, ok |-> TRUE]]_vars

\* C27 (SpecReplay): a file store whose replay met content that does not
\* decode is not put into service.
C27_UndecodableIsFatal ==
  [][last'.op = "NewFileStore" => last'.res # "decodeError"]_vars

\* C28 (SpecList): in the memory and file backends no write of an owner's map
\* is made while a handler that got that map from GetUserURLs is still
\* reading it, which it does without the mutex.
C28_MapsAccessedUnderMutex ==
  \A p \in Procs : ~RacingWrite(p)

\* C29, as stated (SpecList): a delete or list request without an owner
\* identity is answered 401, enqueues nothing and calls no storage method.
C29_Unauthorized_AsStated ==
  [][(last'.userID = NoStr
        /\ last'.op \in {"DeleteUserURLsHandler", "send", "GetUserURLsHandler", "GetUserURLs"})
       => /\ last'.op \in {"DeleteUserURLsHandler", "GetUserURLsHandler"}
          /\ last'.status = StatusUnauthorized
          /\ UNCHANGED <<deleteChan, memoryStore, urls, fileLog, pending, req, worker>>]_vars

\* C29 (SpecList): a delete or list request without an owner identity is
\* rejected before it reaches the backend: it enqueues nothing and calls no
\* storage method.  The answer is 401, except for a delete request whose
\* body is not a JSON list or is an empty list, which is answered 400.
C29_Unauthorized ==
  [][(last'.userID = NoStr
        /\ last'.op \in {"DeleteUserURLsHandler", "send", "GetUserURLsHandler", "GetUserURLs"})
       => /\ last'.op \in {"DeleteUserURLsHandler", "GetUserURLsHandler"}
          /\ last'.status = IF last'.res \in {"Invalid JSON", "No URL IDs provided"}
                            THEN StatusBadRequest ELSE StatusUnauthorized
          /\ UNCHANGED <<deleteChan, memoryStore, urls, fileLog, pending, req, worker>>]_vars

\* A delete request with a list of ids and no owner was answered 401; the
\* queue, which had room, is empty.
C29_Witness ==
  /\ last.op = "DeleteUserURLsHandler"
  /\ last.userID = NoStr
  /\ last.ids # <<>>
  /\ last.status = StatusUnauthorized
  /\ deleteChan = <<>>

\* C30 (SpecRecords): a short id that is bound to a URL stays bound to that URL
\* through every SaveID, SaveBatch and BatchDelete call, on each backend.
C30_NeverRemovedNorRebound ==
  [][\A i \in IDs : Get(i).ok => Get(i)' = Get(i)]_vars

\* BatchDelete has just returned nil for a list that names a record of the
\* calling owner; the id of that record, and every other id, is bound.
C30_Witness ==
  /\ last.op = "BatchDelete"
  /\ last.res = "nil"
  /\ \E i \in Range(last.ids) : Owns(last.userID, i) /\ Get(i).ok
  /\ \A i \in IDs : Get(i).ok

\* C31 (SpecStore): file backend: the first half of SaveID puts the record in
\* the forward map, the reverse map and the owner's listing; when the append
\* then fails SaveID returns the error, the three maps are as they were
\* before the append, and the record is still in the forward map and in the
\* owner's listing and its URL still has a reverse entry.
C31_AppendFailureKeepsMemory ==
  [][/\ (backend = "file" /\ last'.op = "memoryStore.SaveID") =>
          /\ MemoryStore_Get(memoryStore', last'.id) = [url |-> last'.url, ok |-> TRUE]
          /\ MemoryStore_GetIDByURL(memoryStore', last'.url) = [id |-> last'.id, ok |-> TRUE]
     /\ (backend = "file" /\ last'.op = "SaveID" /\ last'.res = "fileError") =>
          /\ memoryStore' = memoryStore
          /\ MemoryStore_Get(memoryStore', last'.id) = [url |-> last'.url, ok |-> TRUE]
          /\ MemoryStore_GetIDByURL(memoryStore', last'.url).ok
          /\ LET L == MemoryStore_GetUserURLs(memoryStore', last'.userID) IN
               L.ok /\ last'.id \in DOMAIN L.urls /\ L.urls[last'.id] = last'.url]_vars

\* SaveID has just returned the error of a failed append; its record is in
\* the forward map, the reverse map and the owner's listing, and the file is
\* empty.
C31_Witness ==
  /\ backend = "file"
  /\ last.op = "SaveID"
  /\ last.res = "fileError"
  /\ fileLog = <<>>
  /\ MemoryStore_Get(memoryStore, last.id) = [url |-> last.url, ok |-> TRUE]
  /\ MemoryStore_GetIDByURL(memoryStore, last.url) = [id |-> last.id, ok |-> TRUE]
  /\ Owns(last.userID, last.id)

-----------------------------------------------------------------------------
\* PostBatchHandler: the items of the request are resolved one by one through
\* getShortURL, collected in the map `pairs`, and saved with one SaveBatch.

MaxItems == 2

\* The bodies that decode to a non-empty list: an item is its original URL and
\* its position stands for its correlation ID.
BatchItems == UNION {[1..n -> URLSet] : n \in 1..MaxItems}

\* What generateID yields for each item that needs one: an id, or NoStr when
\* all ten attempts failed.
Generated(items) == [1..Len(items) -> IDs \cup {NoStr}]

\* getShortURL: the existing id when the reverse lookup hits, else the generated
\* one, which is neither checked against the store nor saved.
getShortURL(originalURL, generatedID) ==
  LET r == GetIDByURL(originalURL) IN
  IF r.ok THEN [id |-> r.id, exists |-> TRUE, err |-> "nil"]
  ELSE IF generatedID = NoStr
       THEN [id |-> NoStr, exists |-> FALSE, err |-> "generate"]
       ELSE [id |-> generatedID, exists |-> FALSE, err |-> "nil"]

\* pairs[id] = originalURL
PostBatchHandler_Assign(pairs, id, originalURL) == Put(pairs, id, originalURL)

\* The loop over the items from item k on: the map handed to SaveBatch and the
\* responses in request order, or the error of the first item that fails.
RECURSIVE PostBatchHandler_Loop(_, _, _, _, _)
PostBatchHandler_Loop(items, gen, k, pairs, batchResults) ==
  IF k > Len(items) THEN [err |-> "nil", pairs |-> pairs, batchResults |-> batchResults]
  ELSE LET g == getShortURL(items[k], gen[k]) IN
       IF g.err # "nil"
       THEN [err |-> g.err, pairs |-> pairs, batchResults |-> batchResults]
       ELSE PostBatchHandler_Loop(items, gen, k + 1,
                                   PostBatchHandler_Assign(pairs, g.id, items[k]),
                                   Append(batchResults, <<g.id, items[k]>>))

\* The early returns: no user id answers 401, a body that cannot be read or
\* decoded, an empty list and an item that fails validation or generation
\* answer 400.  Nothing is stored.
PostBatchHandlerEarlyReturn(userID, items, gen, bodyOK) ==
  /\ backend \in {"memory", "postgres"}
  /\ gen \in Generated(items)
  /\ LET b == PostBatchHandler_Loop(items, gen, 1, EmptyMap, <<>>) IN
     /\ userID = NoStr \/ ~bodyOK \/ b.err # "nil"
     /\ Respond(MkLast("PostBatchHandler", userID, NoStr, NoStr, <<>>, NoStr,
                       IF userID = NoStr THEN "Unauthorized"
                       ELSE IF ~bodyOK THEN "Invalid or empty batch" ELSE b.err,
                       IF userID = NoStr THEN StatusUnauthorized ELSE StatusBadRequest))
  /\ UNCHANGED <<backend, ctx, memoryStore, urls, fileLog, pending, req, deleteChan,
                 worker>>

\* The request that reaches SaveBatch: an error answers 400, nil answers 201
\* with the responses.  `ids` keeps the responses in request order, each with
\* the URL of its item; `prev` is "exists" when some item's URL had an id
\* before the request.
PostBatchHandler(userID, items, gen, order, dbOK) ==
  /\ backend \in {"memory", "postgres"}
  /\ userID # NoStr
  /\ gen \in Generated(items)
  /\ LET b == PostBatchHandler_Loop(items, gen, 1, EmptyMap, <<>>) IN
     /\ b.err = "nil"
     /\ order \in Orders(DOMAIN b.pairs)
     /\ backend = "memory" => dbOK
     /\ LET r == IF backend = "memory"
                 THEN MemoryStore_SaveBatch(memoryStore, userID, order, b.pairs)
                 ELSE [err |-> PostgresStore_SaveBatch(urls, userID, order, b.pairs,
                                                       dbOK).err,
                       store |-> memoryStore]
            t == IF backend = "postgres"
                 THEN PostgresStore_SaveBatch(urls, userID, order, b.pairs, dbOK).table
                 ELSE urls
        IN /\ memoryStore' = r.store
           /\ urls' = t
           /\ Respond(MkLast("PostBatchHandler", userID, NoStr, NoStr, b.batchResults,
                             IF \E k \in 1..Len(items) : GetIDByURL(items[k]).ok
                             THEN "exists" ELSE NoStr,
                             r.err,
                             IF r.err = "nil" THEN StatusCreated ELSE StatusBadRequest))
  /\ UNCHANGED <<backend, ctx, fileLog, pending, req, deleteChan, worker>>

\* Batch requests one after another on the backends whose SaveBatch is one
\* step, next to single saves.
NextBatch ==
  \/ \E u \in Users, i \in IDs, url \in URLSet : CallSaveIDMemory(u, i, url)
  \/ \E u \in Users, i \in IDs, url \in URLSet, dbOK \in BOOLEAN :
        CallSaveIDPostgres(u, i, url, dbOK)
  \/ \E u \in Users \cup {NoStr}, items \in BatchItems, gen \in [1..MaxItems -> IDs \cup {NoStr}],
        bodyOK \in BOOLEAN :
        PostBatchHandlerEarlyReturn(u, items, [k \in 1..Len(items) |-> gen[k]], bodyOK)
  \/ \E u \in Users, items \in BatchItems, gen \in [1..MaxItems -> IDs \cup {NoStr}],
        order \in UNION {Orders(D) : D \in SUBSET IDs}, dbOK \in BOOLEAN :
        PostBatchHandler(u, items, [k \in 1..Len(items) |-> gen[k]], order, dbOK)

SpecBatch == InitDelete /\ [][NextBatch]_vars

\* C32: a batch request answered 201 carries one response per item, in request
\* order, and the id of each response resolves through Get to the URL of its
\* item, also when the batch holds the same URL more than once.
C32_BatchResponsesResolve ==
  [][(last'.op = "PostBatchHandler" /\ last'.status = StatusCreated) =>
       /\ Len(last'.ids) >= 1
       /\ \A k \in 1..Len(last'.ids) :
            (IF backend = "postgres" THEN PostgresStore_Get(urls', last'.ids[k][1])
             ELSE MemoryStore_Get(memoryStore', last'.ids[k][1]))
              = [url |-> last'.ids[k][2], ok |-> TRUE]]_vars

\* C38: a batch request that holds a URL which already has an id, and whose
\* SaveBatch does not fail for a database error, is answered 201, returns the
\* existing id for that item and leaves that URL's id as it was.
C38_BatchIdempotent ==
  [][(/\ last'.op = "PostBatchHandler"
      /\ last'.prev = "exists"
      /\ last'.res \in {"nil", "AlreadyExists"}) =>
       /\ last'.status = StatusCreated
       /\ \A k \in 1..Len(last'.ids), url \in URLSet :
            (url = last'.ids[k][2] /\ GetIDByURL(url).ok) =>
              /\ last'.ids[k][1] = GetIDByURL(url).id
              /\ GetIDByURL(url)' = GetIDByURL(url)]_vars

\* C39 (SpecFile): file backend: a restart made while no write is in progress
\* and every record in memory is in the file leaves every owner's listing as
\* it was before the restart, whether its records were saved through SaveID or
\* through SaveBatch.
C39_ReplayKeepsListings ==
  [][(/\ last'.op = "NewFileStore"
      /\ pending = {}
      /\ \A id \in DOMAIN memoryStore.URLs :
           \E k \in 1..Len(fileLog) :
             /\ fileLog[k].short_url = id
             /\ fileLog[k].original_url = memoryStore.URLs[id]) =>
       \A u \in Users :
         MemoryStore_GetUserURLs(memoryStore', u) = MemoryStore_GetUserURLs(memoryStore, u)]_vars

-----------------------------------------------------------------------------
\* The single-lock version (cmd/shortener/handlers): Storage keeps urlStore and
\* reverse behind one mutex.  Its two maps are held here in the fields URLs and
\* reverseURLs of memoryStore, and a request's position in req.

\* s.mu is held from the Lock of generateAndSaveID to its return.
StorageMuHeld == \E p \in Procs : req[p].pc = "generateAndSaveID"

\* s.urlStore[id] = originalURL; s.reverse[originalURL] = id
Storage_save(s, id, originalURL) ==
  [s EXCEPT !.URLs = Put(@, id, originalURL), !.reverseURLs = Put(@, originalURL, id)]

\* Storage.getIDByURL
Storage_getIDByURL(s, originalURL) ==
  [id |-> Lookup(s.reverseURLs, originalURL), ok |-> originalURL \in DOMAIN s.reverseURLs]

\* PostHandler up to its call of generateAndSaveID: a body that is empty or
\* not a URL answers 400, and a URL that getIDByURL finds answers 200 with
\* the existing id.
Storage_PostHandler(p, originalURL, bodyOK) ==
  /\ req[p].pc = "idle"
  /\ IF ~bodyOK
     THEN /\ Respond(MkLast("PostHandler", NoStr, NoStr, NoStr, <<>>, NoStr,
                            "Invalid request body", StatusBadRequest))
          /\ UNCHANGED req
     ELSE /\ ~StorageMuHeld
          /\ LET r == Storage_getIDByURL(memoryStore, originalURL) IN
             IF r.ok
             THEN /\ Respond(MkLast("PostHandler", NoStr, r.id, originalURL, <<>>, NoStr,
                                    "found", StatusOK))
                  /\ UNCHANGED req
             ELSE /\ Respond(MkLast("PostHandler", NoStr, NoStr, originalURL, <<>>, NoStr,
                                    "notfound", 0))
                  /\ req' = [req EXCEPT ![p] = [Idle EXCEPT !.pc = "call",
                                                            !.url = originalURL]]
  /\ UNCHANGED <<backend, ctx, memoryStore, urls, fileLog, pending, deleteChan, worker>>

\* A variant of the entry of generateAndSaveID that goes to the loop without
\* looking the URL up again.
Storage_generateAndSaveID_NoCheck(p) ==
  /\ req[p].pc = "call"
  /\ ~StorageMuHeld
  /\ Respond(MkLast("generateAndSaveID", NoStr, NoStr, req[p].url, <<>>, NoStr,
                    "locked", 0))
  /\ req' = [req EXCEPT ![p].pc = "generateAndSaveID"]
  /\ UNCHANGED <<backend, ctx, memoryStore, urls, fileLog, pending, deleteChan, worker>>

\* generateAndSaveID takes s.mu and looks the URL up again: an existing id is
\* returned, which PostHandler answers with 201; otherwise the loop starts
\* with the mutex held.
Storage_generateAndSaveID(p) ==
  /\ req[p].pc = "call"
  /\ ~StorageMuHeld
  /\ LET r == Storage_getIDByURL(memoryStore, req[p].url) IN
     IF r.ok
     THEN /\ Respond(MkLast("generateAndSaveID", NoStr, r.id, req[p].url, <<>>, NoStr,
                            "existing", StatusCreated))
          /\ req' = [req EXCEPT ![p] = Idle]
     ELSE /\ Respond(MkLast("generateAndSaveID", NoStr, NoStr, req[p].url, <<>>, NoStr,
                            "locked", 0))
          /\ req' = [req EXCEPT ![p].pc = "generateAndSaveID"]
  /\ UNCHANGED <<backend, ctx, memoryStore, urls, fileLog, pending, deleteChan, worker>>

\* One iteration of the loop, with the mutex held: rand.Read fails
\* (generatedID = NoStr) and the call returns the error; the id is free and
\* the pair is stored; or the id is taken and the loop goes on, up to
\* maxRetries iterations.  An error is answered with 500.
Storage_generateAndSaveID_Iterate(p, generatedID) ==
  /\ req[p].pc = "generateAndSaveID"
  /\ IF generatedID = NoStr
     THEN /\ Respond(MkLast("generateAndSaveID", NoStr, NoStr, req[p].url, <<>>, NoStr,
                            "failed to generate random ID", StatusInternalServerError))
          /\ req' = [req EXCEPT ![p] = Idle]
          /\ UNCHANGED memoryStore
     ELSE IF generatedID \notin DOMAIN memoryStore.URLs
     THEN /\ memoryStore' = Storage_save(memoryStore, generatedID, req[p].url)
          /\ Respond(MkLast("generateAndSaveID", NoStr, generatedID, req[p].url, <<>>,
                            NoStr, "nil", StatusCreated))
          /\ req' = [req EXCEPT ![p] = Idle]
     ELSE /\ Respond(MkLast("generateAndSaveID", NoStr, generatedID, req[p].url, <<>>,
                            NoStr,
                            IF Exhausted(p) THEN "failed to generate unique ID"
                            ELSE "taken",
                            IF Exhausted(p) THEN StatusInternalServerError ELSE 0))
          /\ req' = [req EXCEPT ![p] = IF Exhausted(p) THEN Idle
                                       ELSE [req[p] EXCEPT !.tries = @ + 1]]
          /\ UNCHANGED memoryStore
  /\ UNCHANGED <<backend, ctx, urls, fileLog, pending, deleteChan, worker>>

InitStorage == Init /\ backend = "memory"

NextStorage ==
  \/ \E p \in Procs, url \in URLSet, bodyOK \in BOOLEAN : Storage_PostHandler(p, url, bodyOK)
  \/ \E p \in Procs : Storage_generateAndSaveID(p)
  \/ \E p \in Procs, g \in IDs \cup {NoStr} : Storage_generateAndSaveID_Iterate(p, g)

SpecStorage == InitStorage /\ [][NextStorage]_vars

\* urlStore and reverse are inverse bijections.
StorageBijection(s) ==
  /\ \A id \in DOMAIN s.URLs :
       s.URLs[id] \in DOMAIN s.reverseURLs /\ s.reverseURLs[s.URLs[id]] = id
  /\ \A u \in DOMAIN s.reverseURLs :
       s.reverseURLs[u] \in DOMAIN s.URLs /\ s.URLs[s.reverseURLs[u]] = u

\* C33 as stated (SpecStorage): every request with a valid URL is answered 200
\* or 201.
C33_SingleLock_AsStated ==
  [][(last'.op \in {"PostHandler", "generateAndSaveID"} /\ last'.status # 0
      /\ last'.status # StatusBadRequest) =>
       last'.status \in {StatusOK, StatusCreated}]_vars

\* C33 (SpecStorage): the forward and the reverse map are inverse bijections
\* in every state, so a URL has at most one entry in each.  A request answered
\* 200 or 201 carries the one id of its URL, which is the id the URL had
\* before the answer if it had one.  A request is answered otherwise only
\* when rand.Read fails or ten generated ids in a row are taken: it is then
\* answered 500 and stores nothing.
C33_SingleLock ==
  [][/\ StorageBijection(memoryStore')
     /\ (last'.op \in {"PostHandler", "generateAndSaveID"}
         /\ last'.status \in {StatusOK, StatusCreated}) =>
          /\ Storage_getIDByURL(memoryStore', last'.url) = [id |-> last'.id, ok |-> TRUE]
          /\ MemoryStore_Get(memoryStore', last'.id) = [url |-> last'.url, ok |-> TRUE]
          /\ \A u \in URLSet :
               Storage_getIDByURL(memoryStore, u).ok =>
                 Storage_getIDByURL(memoryStore', u) = Storage_getIDByURL(memoryStore, u)
     /\ (last'.op \in {"PostHandler", "generateAndSaveID"}
         /\ last'.status \notin {0, StatusBadRequest, StatusOK, StatusCreated}) =>
          /\ last'.status = StatusInternalServerError
          /\ last'.res \in {"failed to generate random ID", "failed to generate unique ID"}
          /\ last'.res = "failed to generate unique ID" =>
               \E p \in Procs : req[p].pc = "generateAndSaveID" /\ Exhausted(p)
          /\ memoryStore' = memoryStore]_vars

\* A request that missed in getIDByURL found, under the mutex, the id that
\* another request had stored meanwhile, and answered 201 with it.
C33_Witness ==
  /\ last.op = "generateAndSaveID"
  /\ last.res = "existing"
  /\ last.status = StatusCreated
  /\ Storage_getIDByURL(memoryStore, last.url) = [id |-> last.id, ok |-> TRUE]
  /\ Cardinality({id \in DOMAIN memoryStore.URLs : memoryStore.URLs[id] = last.url}) = 1

-----------------------------------------------------------------------------
\* FileStore.SaveBatch step by step, next to the calls that can run while it
\* holds fs.mu: the readers and the memory half of SaveID take only the
\* wrapped store's mutex, which SaveBatch takes anew for every pair.

\* fs.mu.Lock() of SaveBatch; the range over pairs starts in some order.
CallSaveBatchFileLock(userID, pairs, order) ==
  /\ backend = "file"
  /\ ~FsMuHeld
  /\ order \in Orders(DOMAIN pairs)
  /\ pending' = pending \cup {SaveBatchLoopCall(userID, InOrder(order, pairs))}
  /\ Respond(MkLast("SaveBatch lock", userID, NoStr, NoStr, InOrder(order, pairs),
                    NoStr, "nil", 0))
  /\ UNCHANGED <<backend, ctx, memoryStore, urls, fileLog, req, deleteChan, worker>>

\* The pairs of a batch in the order a second range yields them.
Reordered(batch, perm) == [k \in 1..Len(batch) |-> batch[perm[k]]]

\* A variant of the loop's error return that keeps fs.mu.
CallSaveBatchFileStore_NoUnlock(c, perm) ==
  /\ c \in pending
  /\ c.stage = "loop"
  /\ perm \in Orders(1..Len(c.batch))
  /\ LET pair == c.batch[c.written + 1]
         r == MemoryStore_SaveID(memoryStore, c.userID, pair[1], pair[2]) IN
     /\ memoryStore' = r.store
     /\ IF r.err # "nil"
        THEN /\ UNCHANGED pending
             /\ Respond(MkLast("SaveBatch", c.userID, pair[1], pair[2], c.batch, NoStr,
                               r.err, 0))
        ELSE IF c.written + 1 < Len(c.batch)
        THEN /\ pending' = (pending \ {c}) \cup {[c EXCEPT !.written = @ + 1]}
             /\ Respond(MkLast("SaveBatch memoryStore.SaveID", c.userID, pair[1], pair[2],
                               c.batch, NoStr, "nil", 0))
        ELSE /\ pending' = (pending \ {c}) \cup {SaveBatchCall(c.userID,
                                                               Reordered(c.batch, perm))}
             /\ Respond(MkLast("SaveBatch loop", c.userID, pair[1], pair[2], c.batch,
                               NoStr, "nil", 0))
  /\ UNCHANGED <<backend, ctx, urls, fileLog, req, deleteChan, worker>>

\* One iteration of the loop of SaveBatch: memoryStore.SaveID for the next
\* pair.  An error returns from SaveBatch, which gives up fs.mu; after the
\* last pair the call goes on to appendBatchToFile, whose range takes the
\* pairs in an order of its own.
CallSaveBatchFileStore(c, perm) ==
  /\ c \in pending
  /\ c.stage = "loop"
  /\ perm \in Orders(1..Len(c.batch))
  /\ LET pair == c.batch[c.written + 1]
         r == MemoryStore_SaveID(memoryStore, c.userID, pair[1], pair[2]) IN
     /\ memoryStore' = r.store
     /\ IF r.err # "nil"
        THEN /\ pending' = pending \ {c}
             /\ Respond(MkLast("SaveBatch", c.userID, pair[1], pair[2], c.batch, NoStr,
                               r.err, 0))
        ELSE IF c.written + 1 < Len(c.batch)
        THEN /\ pending' = (pending \ {c}) \cup {[c EXCEPT !.written = @ + 1]}
             /\ Respond(MkLast("SaveBatch memoryStore.SaveID", c.userID, pair[1], pair[2],
                               c.batch, NoStr, "nil", 0))
        ELSE /\ pending' = (pending \ {c}) \cup {SaveBatchCall(c.userID,
                                                               Reordered(c.batch, perm))}
             /\ Respond(MkLast("SaveBatch loop", c.userID, pair[1], pair[2], c.batch,
                               NoStr, "nil", 0))
  /\ UNCHANGED <<backend, ctx, urls, fileLog, req, deleteChan, worker>>

\* store.Get, store.GetIDByURL and store.GetUserURLs as any caller makes
\* them: on the file backend they go straight to the wrapped store.
CallGet(id) ==
  /\ backend \in {"memory", "file"}
  /\ LET r == MemoryStore_Get(memoryStore, id) IN
     Respond(MkLast("Get", NoStr, id, r.url, <<>>, NoStr,
                    IF r.ok THEN "found" ELSE "notfound", 0))
  /\ UNCHANGED <<backend, ctx, memoryStore, urls, fileLog, pending, req, deleteChan,
                 worker>>

CallGetIDByURL(originalURL) ==
  /\ backend \in {"memory", "file"}
  /\ LET r == MemoryStore_GetIDByURL(memoryStore, originalURL) IN
     Respond(MkLast("GetIDByURL", NoStr, r.id, originalURL, <<>>, NoStr,
                    IF r.ok THEN "found" ELSE "notfound", 0))
  /\ UNCHANGED <<backend, ctx, memoryStore, urls, fileLog, pending, req, deleteChan,
                 worker>>

CallGetUserURLs(userID) ==
  /\ backend \in {"memory", "file"}
  /\ LET r == MemoryStore_GetUserURLs(memoryStore, userID) IN
     Respond(MkLast("GetUserURLs", userID, NoStr, NoStr,
                    IF r.ok THEN InOrder(CHOOSE q \in Orders(DOMAIN r.urls) : TRUE, r.urls)
                    ELSE <<>>,
                    NoStr, IF r.ok THEN "found" ELSE "notfound", 0))
  /\ UNCHANGED <<backend, ctx, memoryStore, urls, fileLog, pending, req, deleteChan,
                 worker>>

InitCallers == Init /\ backend \in {"memory", "file"}

NextCallers ==
  \/ \E u \in Users, i \in IDs, url \in URLSet : CallSaveIDMemory(u, i, url)
  \/ \E u \in Users, pairs \in BatchPairs :
        \E order \in Orders(DOMAIN pairs) : CallSaveBatchMemory(u, pairs, order)
  \/ \E u \in Users, i \in IDs, url \in URLSet : CallSaveIDFile(u, i, url)
  \/ \E c \in pending, ioOK \in BOOLEAN : CallSaveIDFileAppend(c, ioOK)
  \/ \E u \in Users, pairs \in BatchPairs :
        \E order \in Orders(DOMAIN pairs) : CallSaveBatchFileLock(u, pairs, order)
  \/ \E c \in pending : \E perm \in Orders(1..Len(c.batch)) : CallSaveBatchFileStore(c, perm)
  \/ \E c \in pending, ioOK \in BOOLEAN : CallSaveBatchFileAppend(c, ioOK)
  \/ \E i \in IDs : CallGet(i)
  \/ \E url \in URLSet : CallGetIDByURL(url)
  \/ \E u \in Users : CallGetUserURLs(u)

SpecCallers == InitCallers /\ [][NextCallers]_vars

\* A SaveBatch call in its loop has stored its first pair and not yet its
\* last one.
PartlyApplied(c) ==
  /\ c.stage = "loop"
  /\ c.written > 0
  /\ c.written < Len(c.batch)
  /\ Get(c.batch[1][1]) = [url |-> c.batch[1][2], ok |-> TRUE]
  /\ ~Get(c.batch[Len(c.batch)][1]).ok

\* C34 (SpecCallers): memory and file backend: a Get, GetIDByURL, GetUserURLs
\* or SaveID call never runs on a store to which a SaveBatch call that is
\* still running has applied only part of its batch.
C34_BatchIsOneOperation ==
  [][last'.op \in {"Get", "GetIDByURL", "GetUserURLs", "SaveID", "memoryStore.SaveID"} =>
       ~\E c \in pending : PartlyApplied(c)]_vars

\* The file backend's calls under the scheduling Go gives them.  A goroutine
\* that can run does run, so a SaveBatch call that holds fs.mu goes on with
\* its next memoryStore.SaveID or Encode (weak fairness).  A SaveID call that
\* waits in fs.mu.Lock() gets the mutex at some point although other calls
\* keep taking it, because sync.Mutex hands a waiter the lock once it has
\* waited for a millisecond (strong fairness).  The calls are those of one
\* owner for one URL.
NextCallersFile ==
  \/ \E i \in IDs : CallSaveIDFile("A", i, "u1")
  \/ \E c \in pending, ioOK \in BOOLEAN : CallSaveIDFileAppend(c, ioOK)
  \/ \E pairs \in LogPairs : \E order \in Orders(DOMAIN pairs) :
        DOMAIN pairs \subseteq IDs /\ CallSaveBatchFileLock("A", pairs, order)
  \/ \E c \in pending : \E perm \in Orders(1..Len(c.batch)) : CallSaveBatchFileStore(c, perm)
  \/ \E c \in pending, ioOK \in BOOLEAN : CallSaveBatchFileAppend(c, ioOK)
  \/ \E i \in IDs : CallGet(i)
  \/ CallGetIDByURL("u1")
  \/ CallGetUserURLs("A")

SaveIDCalls == {SaveIDCall("A", i, "u1") : i \in IDs}

SpecCallersFair ==
  /\ InitFile
  /\ [][NextCallersFile]_vars
  /\ WF_vars(\E c \in pending : \E perm \in Orders(1..Len(c.batch)) :
               CallSaveBatchFileStore(c, perm))
  /\ WF_vars(\E c \in pending, ioOK \in BOOLEAN : CallSaveBatchFileAppend(c, ioOK))
  /\ \A c \in SaveIDCalls : SF_vars(\E ioOK \in BOOLEAN : CallSaveIDFileAppend(c, ioOK))

\* C35 (SpecCallersFair): file backend: a SaveBatch call that holds fs.mu
\* gives it up, and a SaveID call that has written memory and waits for fs.mu
\* appends (or fails to append) and returns, whatever other SaveID, SaveBatch,
\* Get, GetIDByURL and GetUserURLs calls run meanwhile; a read is never kept
\* from running.
C35_NoDeadlock ==
  /\ FsMuHeld ~> ~FsMuHeld
  /\ \A c \in SaveIDCalls : (c \in pending) ~> (c \notin pending)
  /\ []((\A i \in IDs : ENABLED CallGet(i))
        /\ ENABLED CallGetIDByURL("u1")
        /\ ENABLED CallGetUserURLs("A"))

\* A SaveID call waits for fs.mu while a SaveBatch call that holds it is in
\* the middle of its loop over memoryStore.SaveID.
C35_Witness ==
  /\ backend = "file"
  /\ \E c \in pending : c.batch = <<>>
  /\ \E c \in pending : c.stage = "loop" /\ c.written > 0

\* The delete worker scheduled fairly: a BatchDelete call that was started
\* returns, a select that finds a request in the channel again and again takes
\* a ready case, and one that finds ctx.Done() ready again and again takes
\* that case at some point.
SpecWorkerLive ==
  /\ SpecWorker
  /\ WF_vars(WorkerReceive)
  /\ WF_vars(WorkerBatchDeleteMemory)
  /\ WF_vars(\E dbOK \in BOOLEAN : WorkerBatchDeletePostgres(dbOK))
  /\ SF_vars(WorkerStop)

DeleteRequests == {[UserID |-> u, URLIDs |-> l] : u \in Users, l \in DeleteLists}

\* C36 (SpecWorkerLive): a request that is in the queue while the context is
\* not cancelled is passed to BatchDelete, unless the context is cancelled
\* first.
C36_AcceptedIsApplied ==
  \A r \in DeleteRequests :
    ((\E k \in 1..Len(deleteChan) : deleteChan[k] = r) /\ ctx = "active")
      ~> ((last.op = "BatchDelete" /\ last.userID = r.UserID /\ last.ids = r.URLIDs)
          \/ ctx = "done")

\* BatchDelete has been called for a request while the next one waits in the
\* queue and the context is not cancelled.
C36_Witness ==
  /\ last.op = "BatchDelete"
  /\ ctx = "active"
  /\ worker.pc = "select"
  /\ deleteChan # <<>>
  /\ [UserID |-> last.userID, URLIDs |-> last.ids] # Head(deleteChan)

\* The requests that were accepted and not yet passed to BatchDelete, oldest
\* first: the one the worker has taken from the channel, then the channel.
InFlight ==
  (IF worker.pc = "delete" THEN <<[UserID |-> worker.UserID, URLIDs |-> worker.URLIDs]>>
   ELSE <<>>) \o deleteChan

====
